---- MODULE Spec2Model ----
(***************************************************************************)
(* Model of the chat-service session / authentication subsystem:           *)
(* the JWT token service, the Postgres session store, the session usecase, *)
(* the user store and the HTTP layer (auth middleware and handlers).       *)
(*                                                                         *)
(* Time is counted in ticks; a second has TicksPerSec ticks.  Every        *)
(* time.Now() of the code is a separate clock read: an operation that      *)
(* reads the clock n times is given a non-decreasing sequence of n read    *)
(* values, and the clock stands at the last one when the call returns.     *)
(* The 24 hour lifetime is scaled to TTLSecs seconds.                      *)
(***************************************************************************)
EXTENDS Integers, Sequences, FiniteSets, TLC

(* ---------------------------- bounds ---------------------------------- *)
TicksPerSec == 1
MaxDrift == 1
ExtraTime == 1
MaxUsers == 1
MaxSessionIds == 2
MaxMessageIds == 1
MaxRequests == 3

(* ------------------------ program constants --------------------------- *)
\* session_usecase_impl.go:43  time.Now().Add(24 * time.Hour), in seconds, scaled
SessionTTLSecs == 1
\* service_repo.go:49  time.Now().Add(24 * time.Hour), in seconds, scaled
TokenTTLSecs == 1

SessionTTL == SessionTTLSecs * TicksPerSec
TokenTTL == TokenTTLSecs * TicksPerSec
MaxTime == SessionTTL + ExtraTime

\* uuid.Nil
NilUUID == 0
UserIDs == 1..MaxUsers
SessionIDs == 1..MaxSessionIds

\* the process-wide signing secret and a secret of another environment
SecretKey == "secret"
OtherKey == "other"

Min(a, b) == IF a < b THEN a ELSE b

(* ----------------------------- errors --------------------------------- *)
\* Go error values: the dynamic type and the message
NoErr == [type |-> "nil", msg |-> ""]
Err(type, msg) == [type |-> type, msg |-> msg]
\* fmt.Errorf("...: %w", err): a *fmt.wrapError
Wrapped(msg) == Err("wrapError", msg)

(* ------------------------- token service ------------------------------ *)
\* jwt.NewNumericDate truncates a time to whole seconds
NewNumericDate(t) == t - (t % TicksPerSec)

EmptyToken == [kind |-> "empty", sub |-> NilUUID, exp |-> 0, iat |-> 0, nbf |-> 0, key |-> ""]
Garbage == [kind |-> "garbage", sub |-> NilUUID, exp |-> 0, iat |-> 0, nbf |-> 0, key |-> ""]

\* The compact serialisation of an HS256 token is a function of its claims
\* and of the key: two tokens with equal claims and key are the same string.
SignedString(userID, exp, iat, nbf, key) ==
    [kind |-> "jwt", sub |-> userID, exp |-> exp, iat |-> iat, nbf |-> nbf, key |-> key]

\* GenerateToken with the lifetime left out of the expiry
GenerateTokenNoLifetime(userID, r1, r2, r3, signFails) ==
    IF signFails
    THEN [token |-> EmptyToken, err |-> Err("error", "signing failed")]
    ELSE [token |-> SignedString(userID, NewNumericDate(r1), NewNumericDate(r2), NewNumericDate(r3), SecretKey),
          err |-> NoErr]

\* jwtService.GenerateToken; r1, r2, r3 are its three clock reads
GenerateToken(userID, r1, r2, r3, signFails) ==
    IF signFails
    THEN [token |-> EmptyToken, err |-> Err("error", "signing failed")]
    ELSE [token |-> SignedString(userID, NewNumericDate(r1 + TokenTTL),
                                 NewNumericDate(r2), NewNumericDate(r3), SecretKey),
          err |-> NoErr]

\* ValidateToken accepting a token until after its expiry instant
ValidateTokenThroughExpiry(tokenString, t) ==
    IF tokenString.kind # "jwt"
    THEN [userID |-> NilUUID, err |-> Err("error", "token is malformed")]
    ELSE IF tokenString.key # SecretKey
    THEN [userID |-> NilUUID, err |-> Err("error", "signature is invalid")]
    ELSE IF t > tokenString.exp
    THEN [userID |-> NilUUID, err |-> Err("error", "token is expired")]
    ELSE IF t < tokenString.nbf
    THEN [userID |-> NilUUID, err |-> Err("error", "token is not valid yet")]
    ELSE [userID |-> tokenString.sub, err |-> NoErr]

\* jwtService.ValidateToken at clock read t (jwt/v5: valid iff nbf <= t < exp)
ValidateToken(tokenString, t) ==
    IF tokenString.kind # "jwt"
    THEN [userID |-> NilUUID, err |-> Err("error", "token is malformed")]
    ELSE IF tokenString.key # SecretKey
    THEN [userID |-> NilUUID, err |-> Err("error", "signature is invalid")]
    ELSE IF ~(t < tokenString.exp)
    THEN [userID |-> NilUUID, err |-> Err("error", "token is expired")]
    ELSE IF t < tokenString.nbf
    THEN [userID |-> NilUUID, err |-> Err("error", "token is not valid yet")]
    ELSE [userID |-> tokenString.sub, err |-> NoErr]

(* -------------------------- session entity ---------------------------- *)
\* a nil *entity.Session
NoSession == [id |-> NilUUID, userID |-> NilUUID, token |-> EmptyToken, expiresAt |-> 0, createdAt |-> 0]

\* entity.Session.Validate at clock read t
SessionValidate(s, t) ==
    IF s.userID = NilUUID THEN Err("entity.ValidationError", "user_id is required")
    ELSE IF s.token = EmptyToken THEN Err("entity.ValidationError", "token is required")
    ELSE IF s.expiresAt < t THEN Err("entity.ValidationError", "token is expired")
    ELSE NoErr

(* --------------------------- session store ---------------------------- *)
\* sessionRepo.validateSession at clock read t
RepoValidateSession(s, t) ==
    IF s.userID = NilUUID THEN Err("postgres.ValidationError", "user_id is required")
    ELSE IF s.token = EmptyToken THEN Err("postgres.ValidationError", "token is required")
    ELSE IF s.expiresAt < t THEN Err("postgres.ValidationError", "cannot create expired session")
    ELSE NoErr

\* sessionRepo.Create: the INSERT fails on a database error and on the
\* constraints of the sessions table: PRIMARY KEY(id), UNIQUE(token),
\* user_id REFERENCES users(id)
SessionRepoCreate(rows, userRows, s, t, dbFails) ==
    IF RepoValidateSession(s, t) # NoErr
    THEN [rows |-> rows, err |-> RepoValidateSession(s, t)]
    ELSE IF \/ dbFails
            \/ \E o \in rows : o.id = s.id \/ o.token = s.token
            \/ ~ \E u \in userRows : u.id = s.userID
    THEN [rows |-> rows, err |-> Wrapped("failed to insert session")]
    ELSE [rows |-> rows \cup {s}, err |-> NoErr]

\* sessionRepo.GetByToken at clock read t
GetByToken(rows, token, t, dbFails) ==
    IF token = EmptyToken
    THEN [session |-> NoSession, err |-> Err("postgres.ValidationError", "token is required")]
    ELSE IF dbFails
    THEN [session |-> NoSession, err |-> Wrapped("failed to query session")]
    ELSE IF ~ \E s \in rows : s.token = token
    THEN [session |-> NoSession, err |-> Err("postgres.NotFoundError", "session not found")]
    ELSE LET s == CHOOSE s \in rows : s.token = token IN
         IF s.expiresAt < t
         THEN [session |-> NoSession, err |-> Err("postgres.ValidationError", "session expired")]
         ELSE [session |-> s, err |-> NoErr]

\* sessionRepo.DeleteByToken
DeleteByToken(rows, token, dbFails) ==
    IF token = EmptyToken
    THEN [rows |-> rows, err |-> Err("postgres.ValidationError", "token is required")]
    ELSE IF dbFails
    THEN [rows |-> rows, err |-> Wrapped("failed to delete session")]
    ELSE IF ~ \E s \in rows : s.token = token
    THEN [rows |-> rows, err |-> Err("postgres.NotFoundError", "session not found")]
    ELSE [rows |-> {s \in rows : s.token # token}, err |-> NoErr]

(* -------------------------- session usecase --------------------------- *)
\* CreateSession with the lifetime added twice to the expiry of the session
CreateSessionTwiceTheLifetime(rows, userRows, userID, id, r, signFails, dbFails) ==
    LET gen == GenerateToken(userID, r[1], r[2], r[3], signFails)
        session == [id |-> id, userID |-> userID, token |-> gen.token,
                    expiresAt |-> r[4] + SessionTTL + SessionTTL, createdAt |-> r[5]]
        ins == SessionRepoCreate(rows, userRows, session, r[7], dbFails)
    IN  IF gen.err # NoErr
        THEN [rows |-> rows, session |-> NoSession, err |-> gen.err, token |-> gen.token, called |-> FALSE]
        ELSE IF SessionValidate(session, r[6]) # NoErr
        THEN [rows |-> rows, session |-> NoSession, err |-> SessionValidate(session, r[6]),
              token |-> gen.token, called |-> FALSE]
        ELSE IF ins.err # NoErr
        THEN [rows |-> ins.rows, session |-> NoSession, err |-> ins.err, token |-> gen.token, called |-> TRUE]
        ELSE [rows |-> ins.rows, session |-> session, err |-> NoErr, token |-> gen.token, called |-> TRUE]

\* sessionUsecase.CreateSession: r is the sequence of its seven clock reads
\* (three in GenerateToken, ExpiresAt, CreatedAt, Session.Validate,
\* sessionRepo.validateSession), id the value of uuid.New()
CreateSession(rows, userRows, userID, id, r, signFails, dbFails) ==
    LET gen == GenerateToken(userID, r[1], r[2], r[3], signFails)
        session == [id |-> id, userID |-> userID, token |-> gen.token,
                    expiresAt |-> r[4] + SessionTTL, createdAt |-> r[5]]
        ins == SessionRepoCreate(rows, userRows, session, r[7], dbFails)
    IN  IF gen.err # NoErr
        THEN [rows |-> rows, session |-> NoSession, err |-> gen.err, token |-> gen.token, called |-> FALSE]
        ELSE IF SessionValidate(session, r[6]) # NoErr
        THEN [rows |-> rows, session |-> NoSession, err |-> SessionValidate(session, r[6]),
              token |-> gen.token, called |-> FALSE]
        ELSE IF ins.err # NoErr
        THEN [rows |-> ins.rows, session |-> NoSession, err |-> ins.err, token |-> gen.token, called |-> TRUE]
        ELSE [rows |-> ins.rows, session |-> session, err |-> NoErr, token |-> gen.token, called |-> TRUE]

\* ValidateSession that trusts the stored row and never verifies the token
ValidateSessionUnverified(rows, token, r, getFails, delFails) ==
    LET got == GetByToken(rows, token, r[1], getFails)
    IN  IF got.err # NoErr
        THEN [rows |-> rows, session |-> NoSession, err |-> Err("session.BusinessError", "invalid session")]
        ELSE IF got.session.expiresAt < r[2]
        THEN [rows |-> DeleteByToken(rows, token, delFails).rows, session |-> NoSession,
              err |-> Err("session.BusinessError", "session expired")]
        ELSE [rows |-> rows, session |-> got.session, err |-> NoErr]

\* ValidateSession that reports the expiry and leaves the session stored
ValidateSessionKeepsExpired(rows, token, r, getFails, delFails) ==
    LET got == GetByToken(rows, token, r[1], getFails)
        session == got.session
        jwt == ValidateToken(token, r[3])
    IN  IF got.err # NoErr
        THEN [rows |-> rows, session |-> NoSession, err |-> Err("session.BusinessError", "invalid session")]
        ELSE IF session.expiresAt < r[2]
        THEN [rows |-> rows, session |-> NoSession, err |-> Err("session.BusinessError", "session expired")]
        ELSE IF jwt.err # NoErr
        THEN [rows |-> rows, session |-> NoSession, err |-> Err("session.BusinessError", "invalid token")]
        ELSE IF jwt.userID # session.userID
        THEN [rows |-> rows, session |-> NoSession, err |-> Err("session.BusinessError", "token mismatch")]
        ELSE [rows |-> rows, session |-> session, err |-> NoErr]

\* sessionUsecase.ValidateSession: r is the sequence of its three clock reads
\* (sessionRepo.GetByToken, the usecase's expiry check, the JWT parser)
ValidateSession(rows, token, r, getFails, delFails) ==
    LET got == GetByToken(rows, token, r[1], getFails)
        session == got.session
        jwt == ValidateToken(token, r[3])
    IN  IF got.err # NoErr
        THEN [rows |-> rows, session |-> NoSession, err |-> Err("session.BusinessError", "invalid session")]
        ELSE IF session.expiresAt < r[2]
        THEN [rows |-> DeleteByToken(rows, token, delFails).rows, session |-> NoSession,
              err |-> Err("session.BusinessError", "session expired")]
        ELSE IF jwt.err # NoErr
        THEN [rows |-> rows, session |-> NoSession, err |-> Err("session.BusinessError", "invalid token")]
        ELSE IF jwt.userID # session.userID
        THEN [rows |-> rows, session |-> NoSession, err |-> Err("session.BusinessError", "token mismatch")]
        ELSE [rows |-> rows, session |-> session, err |-> NoErr]

\* DeleteSession that reports success without deleting
DeleteSessionKeepsRow(rows, token, dbFails) ==
    [rows |-> rows, err |-> NoErr]

\* sessionUsecase.DeleteSession
DeleteSession(rows, token, dbFails) ==
    DeleteByToken(rows, token, dbFails)

(* --------------------------- credential hasher ------------------------ *)
\* A password field holds a cleartext string or a bcrypt hash of one; the
\* hash embeds its salt.  Cleared ("") is the empty cleartext.
Clear(text) == [kind |-> "clear", salt |-> 0, text |-> text]
Cleared == Clear("")
Salts == {1}

\* bcrypt keys its cipher with the first 72 bytes of the password: what
\* follows them has no part in the hash
BcryptKeyBytes == 72
Key(password) ==
    IF Len(password) > BcryptKeyBytes THEN SubSeq(password, 1, BcryptKeyBytes) ELSE password

\* hashService.HashPassword with the salt bcrypt draws.  hashFails is the
\* error of bcrypt.GenerateFromPassword: a failure to read random bytes, or,
\* in the releases of the library that refuse them, a password of more than
\* 72 bytes (the older releases hash its first 72 bytes)
HashPassword(password, salt, hashFails) ==
    IF hashFails
    THEN [hash |-> Cleared, err |-> Err("error", "bcrypt failure")]
    ELSE [hash |-> [kind |-> "bcrypt", salt |-> salt, text |-> Key(password)], err |-> NoErr]

\* CheckPasswordHash comparing the whole password
CheckPasswordHashWhole(password, hash) ==
    hash.kind = "bcrypt" /\ hash.text = password

\* hashService.CheckPasswordHash: bcrypt.CompareHashAndPassword hashes the
\* password with the salt of the hash and compares; a string that is no
\* bcrypt hash is an error, reported as false
CheckPasswordHash(password, hash) ==
    hash.kind = "bcrypt" /\ hash.text = Key(password)

\* len() of a password field: a bcrypt hash is 60 characters long
PasswordLen(p) == IF p.kind = "bcrypt" THEN 60 ELSE Len(p.text)

(* ----------------------------- user entity ---------------------------- *)
\* a nil *entity.User
NoUser == [id |-> NilUUID, username |-> "", email |-> "", password |-> Cleared]

\* entity.User.Validate
UserValidate(u) ==
    IF u.username = "" THEN Err("entity.ValidationError", "username is required")
    ELSE IF Len(u.username) < 3 THEN Err("entity.ValidationError", "username must be at least 3 characters")
    ELSE IF u.email = "" THEN Err("entity.ValidationError", "email is required")
    ELSE IF u.password = Cleared THEN Err("entity.ValidationError", "password is required")
    ELSE IF PasswordLen(u.password) < 6 THEN Err("entity.ValidationError", "password must be at least 6 characters")
    ELSE NoErr

\* entity.User.ValidateForUpdate
ValidateForUpdate(u) ==
    IF u.username = "" THEN Err("entity.ValidationError", "username is required")
    ELSE IF Len(u.username) < 3 THEN Err("entity.ValidationError", "username must be at least 3 characters")
    ELSE IF u.email = "" THEN Err("entity.ValidationError", "email is required")
    ELSE NoErr

(* ------------------------------ user store ---------------------------- *)
\* userRepo.validateUser
RepoValidateUser(u) ==
    IF u.username = "" THEN Err("postgres.ValidationError", "username is required")
    ELSE IF Len(u.username) < 3 THEN Err("postgres.ValidationError", "username must be at least 3 characters")
    ELSE IF u.email = "" THEN Err("postgres.ValidationError", "email is required")
    ELSE IF u.password = Cleared THEN Err("postgres.ValidationError", "password is required")
    ELSE IF PasswordLen(u.password) < 6 THEN Err("postgres.ValidationError", "password must be at least 6 characters")
    ELSE NoErr

\* userRepo.Create: the INSERT fails on a database error and on the
\* constraints of the users table: PRIMARY KEY(id), UNIQUE(username), UNIQUE(email)
UserRepoCreate(userRows, u, dbFails) ==
    IF RepoValidateUser(u) # NoErr
    THEN [rows |-> userRows, err |-> RepoValidateUser(u)]
    ELSE IF \/ dbFails
            \/ \E o \in userRows : o.id = u.id \/ o.username = u.username \/ o.email = u.email
    THEN [rows |-> userRows, err |-> Wrapped("failed to insert user")]
    ELSE [rows |-> userRows \cup {u}, err |-> NoErr]

\* userRepo.GetByID
GetByID(userRows, id, dbFails) ==
    IF id = NilUUID
    THEN [user |-> NoUser, err |-> Err("postgres.ValidationError", "invalid user ID")]
    ELSE IF dbFails
    THEN [user |-> NoUser, err |-> Wrapped("failed to query user")]
    ELSE IF ~ \E u \in userRows : u.id = id
    THEN [user |-> NoUser, err |-> Err("postgres.NotFoundError", "user not found")]
    ELSE [user |-> CHOOSE u \in userRows : u.id = id, err |-> NoErr]

\* userRepo.GetByEmail
GetByEmail(userRows, email, dbFails) ==
    IF email = ""
    THEN [user |-> NoUser, err |-> Err("postgres.ValidationError", "email is required")]
    ELSE IF dbFails
    THEN [user |-> NoUser, err |-> Wrapped("failed to query user")]
    ELSE IF ~ \E u \in userRows : u.email = email
    THEN [user |-> NoUser, err |-> Err("postgres.NotFoundError", "user not found")]
    ELSE [user |-> CHOOSE u \in userRows : u.email = email, err |-> NoErr]

\* userRepo.Update: username and email always, the password only when not
\* empty; the UPDATE fails on a database error and on UNIQUE(username), UNIQUE(email)
UserRepoUpdate(userRows, u, dbFails) ==
    IF \/ dbFails
       \/ \E o \in userRows : o.id # u.id /\ (o.username = u.username \/ o.email = u.email)
                              /\ \E me \in userRows : me.id = u.id
    THEN [rows |-> userRows, err |-> Wrapped("failed to update user")]
    ELSE IF ~ \E o \in userRows : o.id = u.id
    THEN [rows |-> userRows, err |-> Err("postgres.NotFoundError", "user not found")]
    ELSE LET old == CHOOSE o \in userRows : o.id = u.id
             new == [old EXCEPT !.username = u.username, !.email = u.email,
                                !.password = IF u.password # Cleared THEN u.password ELSE old.password]
         IN [rows |-> (userRows \ {old}) \cup {new}, err |-> NoErr]

\* userRepo.Delete with each statement committed on its own: a failure
\* leaves what the statements before it deleted
UserRepoDeleteNoRollback(userRows, rows, msgRows, id, failAt) ==
    LET same == [users |-> userRows, sessions |-> rows, messages |-> msgRows]
        noMsgs == {m \in msgRows : m.userID # id}
        noSess == {s \in rows : s.userID # id}
    IN
    IF id = NilUUID
    THEN same @@ [err |-> Err("postgres.ValidationError", "invalid user ID")]
    ELSE IF failAt = 1 THEN same @@ [err |-> Wrapped("failed to begin transaction")]
    ELSE IF failAt = 2 THEN same @@ [err |-> Wrapped("failed to delete user messages")]
    ELSE IF failAt = 3
    THEN [users |-> userRows, sessions |-> rows, messages |-> noMsgs,
          err |-> Wrapped("failed to delete user sessions")]
    ELSE IF failAt = 4
    THEN [users |-> userRows, sessions |-> noSess, messages |-> noMsgs,
          err |-> Wrapped("failed to delete user")]
    ELSE IF ~ \E u \in userRows : u.id = id
    THEN same @@ [err |-> Err("postgres.NotFoundError", "user not found")]
    ELSE [users |-> {u \in userRows : u.id # id}, sessions |-> noSess, messages |-> noMsgs,
          err |-> IF failAt = 5 THEN Wrapped("failed to commit transaction") ELSE NoErr]

\* userRepo.Delete: one transaction deleting the messages, the sessions and
\* the account; failAt names the statement that fails (0: none, 1: begin,
\* 2: delete messages, 3: delete sessions, 4: delete user, 5: commit), and a
\* failure rolls everything back
UserRepoDelete(userRows, rows, msgRows, id, failAt) ==
    LET same == [users |-> userRows, sessions |-> rows, messages |-> msgRows] IN
    IF id = NilUUID
    THEN same @@ [err |-> Err("postgres.ValidationError", "invalid user ID")]
    ELSE IF failAt = 1 THEN same @@ [err |-> Wrapped("failed to begin transaction")]
    ELSE IF failAt = 2 THEN same @@ [err |-> Wrapped("failed to delete user messages")]
    ELSE IF failAt = 3 THEN same @@ [err |-> Wrapped("failed to delete user sessions")]
    ELSE IF failAt = 4 THEN same @@ [err |-> Wrapped("failed to delete user")]
    ELSE IF ~ \E u \in userRows : u.id = id
    THEN same @@ [err |-> Err("postgres.NotFoundError", "user not found")]
    ELSE IF failAt = 5 THEN same @@ [err |-> Wrapped("failed to commit transaction")]
    ELSE [users |-> {u \in userRows : u.id # id},
          sessions |-> {s \in rows : s.userID # id},
          messages |-> {m \in msgRows : m.userID # id},
          err |-> NoErr]

\* sessionRepo.GetByUserID at clock read t: the newest session of the user
GetByUserID(rows, userID, t, dbFails) ==
    IF userID = NilUUID
    THEN [session |-> NoSession, err |-> Err("postgres.ValidationError", "invalid user ID")]
    ELSE IF dbFails
    THEN [session |-> NoSession, err |-> Wrapped("failed to query session")]
    ELSE IF ~ \E s \in rows : s.userID = userID
    THEN [session |-> NoSession, err |-> Err("postgres.NotFoundError", "session not found")]
    ELSE LET s == CHOOSE s \in rows : s.userID = userID
                     /\ \A o \in rows : o.userID = userID => o.createdAt <= s.createdAt IN
         IF s.expiresAt < t
         THEN [session |-> NoSession, err |-> Err("postgres.ValidationError", "session expired")]
         ELSE [session |-> s, err |-> NoErr]

(* ---------------------------- user usecase ---------------------------- *)
\* userUsecase.Register: id is the value of uuid.New(), salt the salt bcrypt
\* draws; the error of the existence pre-check is discarded
\* The part of it that follows the existence pre-check: hash, validate, insert
RegisterInsert(userRows, username, email, password, id, salt, hashFails, dbFails) ==
    LET hashed == HashPassword(password, salt, hashFails)
        user == [id |-> id, username |-> username, email |-> email, password |-> hashed.hash]
        ins == UserRepoCreate(userRows, user, dbFails)
    IN  IF hashed.err # NoErr
        THEN [rows |-> userRows, user |-> NoUser, err |-> hashed.err]
        ELSE IF UserValidate(user) # NoErr
        THEN [rows |-> userRows, user |-> NoUser, err |-> UserValidate(user)]
        ELSE IF ins.err # NoErr
        THEN [rows |-> ins.rows, user |-> NoUser, err |-> ins.err]
        ELSE [rows |-> ins.rows, user |-> [user EXCEPT !.password = Cleared], err |-> NoErr]

\* Register hashing the password before it looks for the account
RegisterHashesFirst(userRows, username, email, password, id, salt, getFails, hashFails, dbFails) ==
    LET existingUser == GetByEmail(userRows, email, getFails).user
        hashed == HashPassword(password, salt, hashFails)
    IN  IF hashed.err # NoErr
        THEN [rows |-> userRows, user |-> NoUser, err |-> hashed.err]
        ELSE IF existingUser # NoUser
        THEN [rows |-> userRows, user |-> NoUser,
              err |-> Err("user.BusinessError", "user with this email already exists")]
        ELSE RegisterInsert(userRows, username, email, password, id, salt, hashFails, dbFails)

Register(userRows, username, email, password, id, salt, getFails, hashFails, dbFails) ==
    LET existingUser == GetByEmail(userRows, email, getFails).user
    IN  IF existingUser # NoUser
        THEN [rows |-> userRows, user |-> NoUser,
              err |-> Err("user.BusinessError", "user with this email already exists")]
        ELSE RegisterInsert(userRows, username, email, password, id, salt, hashFails, dbFails)

\* Login telling the caller that the account does not exist
LoginTellsApart(userRows, email, password, getFails) ==
    LET got == GetByEmail(userRows, email, getFails) IN
    IF got.err # NoErr
    THEN [user |-> NoUser, err |-> Err("user.BusinessError", "user not found")]
    ELSE IF ~ CheckPasswordHash(password, got.user.password)
    THEN [user |-> NoUser, err |-> Err("user.BusinessError", "invalid credentials")]
    ELSE [user |-> [got.user EXCEPT !.password = Cleared], err |-> NoErr]

\* Login returning the stored record as it is
LoginEchoesHash(userRows, email, password, getFails) ==
    LET got == GetByEmail(userRows, email, getFails) IN
    IF got.err # NoErr
    THEN [user |-> NoUser, err |-> Err("user.BusinessError", "invalid credentials")]
    ELSE IF ~ CheckPasswordHash(password, got.user.password)
    THEN [user |-> NoUser, err |-> Err("user.BusinessError", "invalid credentials")]
    ELSE [user |-> got.user, err |-> NoErr]

\* userUsecase.Login
Login(userRows, email, password, getFails) ==
    LET got == GetByEmail(userRows, email, getFails) IN
    IF got.err # NoErr
    THEN [user |-> NoUser, err |-> Err("user.BusinessError", "invalid credentials")]
    ELSE IF ~ CheckPasswordHash(password, got.user.password)
    THEN [user |-> NoUser, err |-> Err("user.BusinessError", "invalid credentials")]
    ELSE [user |-> [got.user EXCEPT !.password = Cleared], err |-> NoErr]

\* userUsecase.GetProfile
GetProfile(userRows, userID, getFails) ==
    LET got == GetByID(userRows, userID, getFails) IN
    IF got.err # NoErr
    THEN [user |-> NoUser, err |-> got.err]
    ELSE [user |-> [got.user EXCEPT !.password = Cleared], err |-> NoErr]

\* userUsecase.UpdateProfile
UpdateProfile(userRows, user, dbFails) ==
    IF ValidateForUpdate(user) # NoErr
    THEN [rows |-> userRows, err |-> ValidateForUpdate(user)]
    ELSE UserRepoUpdate(userRows, user, dbFails)

\* userUsecase.DeleteUser: the result of the session lookup is only logged
DeleteUser(userRows, rows, msgRows, userID, failAt) ==
    UserRepoDelete(userRows, rows, msgRows, userID, failAt)

(* ----------------------------- message store -------------------------- *)
\* a nil *entity.Message
NoMessage == [id |-> NilUUID, userID |-> NilUUID, content |-> "", createdAt |-> 0, updatedAt |-> 0]

\* entity.Message.Validate
MessageValidate(m) ==
    IF m.userID = NilUUID THEN Err("entity.ValidationError", "user_id is required")
    ELSE IF m.content = "" THEN Err("entity.ValidationError", "content is required")
    ELSE IF Len(m.content) > 1000 THEN Err("entity.ValidationError", "content must be less than 1000 characters")
    ELSE NoErr

\* messageRepo.validateMessage
RepoValidateMessage(m) ==
    IF m.userID = NilUUID THEN Err("postgres.ValidationError", "user_id is required")
    ELSE IF m.content = "" THEN Err("postgres.ValidationError", "content is required")
    ELSE IF Len(m.content) > 1000 THEN Err("postgres.ValidationError", "content must be less than 1000 characters")
    ELSE NoErr

\* messageRepo.Create: the INSERT fails on a database error and on the
\* constraints of the messages table: PRIMARY KEY(id), user_id REFERENCES users(id)
MessageRepoCreate(msgRows, userRows, m, dbFails) ==
    IF RepoValidateMessage(m) # NoErr
    THEN [rows |-> msgRows, err |-> RepoValidateMessage(m)]
    ELSE IF \/ dbFails
            \/ \E o \in msgRows : o.id = m.id
            \/ ~ \E u \in userRows : u.id = m.userID
    THEN [rows |-> msgRows, err |-> Wrapped("failed to insert message")]
    ELSE [rows |-> msgRows \cup {m}, err |-> NoErr]

\* messageRepo.GetByID
MessageRepoGetByID(msgRows, id, dbFails) ==
    IF id = NilUUID
    THEN [message |-> NoMessage, err |-> Err("postgres.ValidationError", "invalid message ID")]
    ELSE IF dbFails
    THEN [message |-> NoMessage, err |-> Wrapped("failed to query message")]
    ELSE IF ~ \E m \in msgRows : m.id = id
    THEN [message |-> NoMessage, err |-> Err("postgres.NotFoundError", "message not found")]
    ELSE [message |-> CHOOSE m \in msgRows : m.id = id, err |-> NoErr]

\* messageRepo.Delete
MessageRepoDelete(msgRows, id, dbFails) ==
    IF id = NilUUID
    THEN [rows |-> msgRows, err |-> Err("postgres.ValidationError", "invalid message ID")]
    ELSE IF dbFails
    THEN [rows |-> msgRows, err |-> Wrapped("failed to delete message")]
    ELSE IF ~ \E m \in msgRows : m.id = id
    THEN [rows |-> msgRows, err |-> Err("postgres.NotFoundError", "message not found")]
    ELSE [rows |-> {m \in msgRows : m.id # id}, err |-> NoErr]

(* ---------------------------- message usecase ------------------------- *)
\* messageUsecase.CreateMessage without the call of message.Validate
CreateMessageUnchecked(msgRows, userRows, userID, content, id, r, getFails, dbFails) ==
    LET message == [id |-> id, userID |-> userID, content |-> content, createdAt |-> r[1], updatedAt |-> r[2]]
        ins == MessageRepoCreate(msgRows, userRows, message, dbFails)
    IN  IF GetByID(userRows, userID, getFails).err # NoErr
        THEN [rows |-> msgRows, message |-> NoMessage, err |-> Err("message.BusinessError", "user not found")]
        ELSE IF ins.err # NoErr
        THEN [rows |-> ins.rows, message |-> NoMessage, err |-> ins.err]
        ELSE [rows |-> ins.rows, message |-> message, err |-> NoErr]

\* messageUsecase.CreateMessage: id is the value of uuid.New(), r the two
\* readings of time.Now()
CreateMessage(msgRows, userRows, userID, content, id, r, getFails, dbFails) ==
    LET message == [id |-> id, userID |-> userID, content |-> content, createdAt |-> r[1], updatedAt |-> r[2]]
        ins == MessageRepoCreate(msgRows, userRows, message, dbFails)
    IN  IF GetByID(userRows, userID, getFails).err # NoErr
        THEN [rows |-> msgRows, message |-> NoMessage, err |-> Err("message.BusinessError", "user not found")]
        ELSE IF MessageValidate(message) # NoErr
        THEN [rows |-> msgRows, message |-> NoMessage, err |-> MessageValidate(message)]
        ELSE IF ins.err # NoErr
        THEN [rows |-> ins.rows, message |-> NoMessage, err |-> ins.err]
        ELSE [rows |-> ins.rows, message |-> message, err |-> NoErr]

\* messageUsecase.GetMessagesByUser
GetMessagesByUser(msgRows, userRows, userID, getFails, dbFails) ==
    IF GetByID(userRows, userID, getFails).err # NoErr
    THEN [messages |-> {}, err |-> Err("message.BusinessError", "user not found")]
    ELSE IF userID = NilUUID
    THEN [messages |-> {}, err |-> Err("postgres.ValidationError", "invalid user ID")]
    ELSE IF dbFails
    THEN [messages |-> {}, err |-> Wrapped("failed to query messages")]
    ELSE [messages |-> {m \in msgRows : m.userID = userID}, err |-> NoErr]

(* ------------------------------ HTTP layer ---------------------------- *)
\* The JSON body sent by SendError / SendSuccess, with its status code
Response(status, message, error) == [status |-> status, message |-> message, error |-> error]
NoResponse == Response(0, "", "")

\* handler.HandleError: the type switch on the marker interfaces.  Only the
\* three BusinessError types have a ValidationError() method, none of the
\* error types of the program has NotFound(), UnauthorizedErrorImpl has
\* Unauthorized().
HandleError(err) ==
    IF err.type \in {"session.BusinessError", "user.BusinessError", "message.BusinessError"}
    THEN Response(400, "Validation failed", err.msg)
    ELSE IF err.type = "handler.UnauthorizedErrorImpl"
    THEN Response(401, "Unauthorized", err.msg)
    ELSE Response(500, "Internal server error", "Something went wrong")

\* An Authorization header: the text before the token, and the token
MissingHeader == [prefix |-> "", token |-> EmptyToken]
Bearer(token) == [prefix |-> "Bearer ", token |-> token]

\* strings.TrimPrefix(authHeader, "Bearer ")
TrimPrefix(authHeader) ==
    IF authHeader.prefix = "Bearer " THEN [prefix |-> "", token |-> authHeader.token] ELSE authHeader

\* AuthMiddleware that puts the reason of the failure in the response
AuthMiddlewareTellsReason(rows, authHeader, r, getFails, delFails) ==
    LET tokenString == TrimPrefix(authHeader)
        val == ValidateSession(rows, tokenString.token, r, getFails, delFails)
    IN  IF authHeader = MissingHeader
        THEN [rows |-> rows, abort |-> TRUE, set |-> FALSE, called |-> FALSE, err |-> NoErr, userID |-> NilUUID,
              session |-> NoSession,
              resp |-> Response(401, "Authorization required", "No authorization header provided")]
        ELSE IF tokenString = authHeader
        THEN [rows |-> rows, abort |-> TRUE, set |-> FALSE, called |-> FALSE, err |-> NoErr, userID |-> NilUUID,
              session |-> NoSession,
              resp |-> Response(401, "Invalid authorization format", "Use 'Bearer <token>' format")]
        ELSE IF val.err # NoErr
        THEN [rows |-> val.rows, abort |-> TRUE, set |-> FALSE, called |-> TRUE, err |-> val.err,
              userID |-> NilUUID, session |-> NoSession,
              resp |-> Response(401, "Invalid session", val.err.msg)]
        ELSE [rows |-> val.rows, abort |-> FALSE, set |-> TRUE, called |-> TRUE, err |-> NoErr,
              userID |-> val.session.userID, session |-> val.session, resp |-> NoResponse]

\* AuthMiddleware that answers a failed validation but does not abort the chain
AuthMiddlewareNoAbort(rows, authHeader, r, getFails, delFails) ==
    LET tokenString == TrimPrefix(authHeader)
        val == ValidateSession(rows, tokenString.token, r, getFails, delFails)
    IN  IF authHeader = MissingHeader
        THEN [rows |-> rows, abort |-> TRUE, set |-> FALSE, called |-> FALSE, err |-> NoErr, userID |-> NilUUID,
              session |-> NoSession,
              resp |-> Response(401, "Authorization required", "No authorization header provided")]
        ELSE IF tokenString = authHeader
        THEN [rows |-> rows, abort |-> TRUE, set |-> FALSE, called |-> FALSE, err |-> NoErr, userID |-> NilUUID,
              session |-> NoSession,
              resp |-> Response(401, "Invalid authorization format", "Use 'Bearer <token>' format")]
        ELSE IF val.err # NoErr
        THEN [rows |-> val.rows, abort |-> FALSE, set |-> FALSE, called |-> TRUE, err |-> val.err,
              userID |-> NilUUID, session |-> NoSession,
              resp |-> Response(401, "Invalid session", "Session is invalid or expired")]
        ELSE [rows |-> val.rows, abort |-> FALSE, set |-> TRUE, called |-> TRUE, err |-> NoErr,
              userID |-> val.session.userID, session |-> val.session, resp |-> NoResponse]

\* Middleware.AuthMiddleware: abort is c.Abort(), set whether c.Set stored the
\* identity userID; called says whether the session usecase was called
AuthMiddleware(rows, authHeader, r, getFails, delFails) ==
    LET tokenString == TrimPrefix(authHeader)
        val == ValidateSession(rows, tokenString.token, r, getFails, delFails)
    IN  IF authHeader = MissingHeader
        THEN [rows |-> rows, abort |-> TRUE, set |-> FALSE, called |-> FALSE, err |-> NoErr, userID |-> NilUUID,
              session |-> NoSession,
              resp |-> Response(401, "Authorization required", "No authorization header provided")]
        ELSE IF tokenString = authHeader
        THEN [rows |-> rows, abort |-> TRUE, set |-> FALSE, called |-> FALSE, err |-> NoErr, userID |-> NilUUID,
              session |-> NoSession,
              resp |-> Response(401, "Invalid authorization format", "Use 'Bearer <token>' format")]
        ELSE IF val.err # NoErr
        THEN [rows |-> val.rows, abort |-> TRUE, set |-> FALSE, called |-> TRUE, err |-> val.err, userID |-> NilUUID,
              session |-> NoSession,
              resp |-> Response(401, "Invalid session", "Session is invalid or expired")]
        ELSE [rows |-> val.rows, abort |-> FALSE, set |-> TRUE, called |-> TRUE, err |-> NoErr,
              userID |-> val.session.userID, session |-> val.session, resp |-> NoResponse]

\* What the middleware leaves in the gin context
Context(mw) == [set |-> mw.set, userID |-> mw.userID]

\* handler.GetUserFromContext
GetUserFromContext(c) ==
    IF ~ c.set
    THEN [userID |-> NilUUID, err |-> Err("handler.UnauthorizedErrorImpl", "user not authenticated")]
    ELSE [userID |-> c.userID, err |-> NoErr]

\* The outcome of a handler: the tables, the response, and the identity the
\* handler acted as (NilUUID when it used none)
Outcome(userRows, rows, msgRows, resp, actor) ==
    [users |-> userRows, sessions |-> rows, messages |-> msgRows, resp |-> resp, actor |-> actor]

\* binding:"required,email"
IsEmail(email) == email \in {"a@x.com", "b@x.com", "c@x.com"}

\* UserHandler.GetProfile
UserHandlerGetProfile(userRows, rows, msgRows, c, getFails) ==
    LET ctx == GetUserFromContext(c)
        res == GetProfile(userRows, ctx.userID, getFails)
    IN  IF ctx.err # NoErr THEN Outcome(userRows, rows, msgRows, HandleError(ctx.err), NilUUID)
        ELSE IF res.err # NoErr THEN Outcome(userRows, rows, msgRows, HandleError(res.err), ctx.userID)
        ELSE Outcome(userRows, rows, msgRows, Response(200, "Profile retrieved successfully", ""), ctx.userID)

\* UserHandler.UpdateProfile with the username and email of the request body
UserHandlerUpdateProfile(userRows, rows, msgRows, c, username, email, getFails, dbFails) ==
    LET ctx == GetUserFromContext(c)
        got == GetProfile(userRows, ctx.userID, getFails)
        user == [got.user EXCEPT !.username = IF username # "" THEN username ELSE @,
                                 !.email = IF email # "" THEN email ELSE @]
        upd == UpdateProfile(userRows, user, dbFails)
    IN  IF ctx.err # NoErr THEN Outcome(userRows, rows, msgRows, HandleError(ctx.err), NilUUID)
        ELSE IF got.err # NoErr THEN Outcome(userRows, rows, msgRows, HandleError(got.err), ctx.userID)
        ELSE IF upd.err # NoErr THEN Outcome(upd.rows, rows, msgRows, HandleError(upd.err), ctx.userID)
        ELSE Outcome(upd.rows, rows, msgRows, Response(200, "Profile updated successfully", ""), ctx.userID)

\* UserHandler.Logout: a failed deletion is only logged
UserHandlerLogout(userRows, rows, msgRows, c, authHeader, dbFails) ==
    LET ctx == GetUserFromContext(c)
        tokenString == TrimPrefix(authHeader)
        del == DeleteSession(rows, tokenString.token, dbFails)
    IN  IF ctx.err # NoErr THEN Outcome(userRows, rows, msgRows, HandleError(ctx.err), NilUUID)
        ELSE IF tokenString # authHeader /\ tokenString.token # EmptyToken
        THEN Outcome(userRows, del.rows, msgRows, Response(200, "Logged out successfully", ""), ctx.userID)
        ELSE Outcome(userRows, rows, msgRows, Response(200, "Logged out successfully", ""), ctx.userID)

\* UserHandler.DeleteUser
UserHandlerDeleteUser(userRows, rows, msgRows, c, failAt) ==
    LET ctx == GetUserFromContext(c)
        del == DeleteUser(userRows, rows, msgRows, ctx.userID, failAt)
    IN  IF ctx.err # NoErr THEN Outcome(userRows, rows, msgRows, HandleError(ctx.err), NilUUID)
        ELSE IF del.err # NoErr THEN Outcome(del.users, del.sessions, del.messages, HandleError(del.err), ctx.userID)
        ELSE Outcome(del.users, del.sessions, del.messages,
                     Response(200, "Account deleted successfully", ""), ctx.userID)

\* MessageHandler.CreateMessage; binding:"required,min=1,max=1000"
MessageHandlerCreateMessage(userRows, rows, msgRows, c, content, id, r, getFails, dbFails) ==
    LET ctx == GetUserFromContext(c)
        res == CreateMessage(msgRows, userRows, ctx.userID, content, id, r, getFails, dbFails)
    IN  IF ctx.err # NoErr THEN Outcome(userRows, rows, msgRows, HandleError(ctx.err), NilUUID)
        ELSE IF content = "" \/ Len(content) > 1000
        THEN Outcome(userRows, rows, msgRows, Response(400, "Invalid request", "binding failed"), ctx.userID)
        ELSE IF res.err # NoErr THEN Outcome(userRows, rows, res.rows, HandleError(res.err), ctx.userID)
        ELSE Outcome(userRows, rows, res.rows, Response(201, "Message created successfully", ""), ctx.userID)

\* MessageHandler.GetMessagesByUser
MessageHandlerGetMessagesByUser(userRows, rows, msgRows, c, getFails, dbFails) ==
    LET ctx == GetUserFromContext(c)
        res == GetMessagesByUser(msgRows, userRows, ctx.userID, getFails, dbFails)
    IN  IF ctx.err # NoErr THEN Outcome(userRows, rows, msgRows, HandleError(ctx.err), NilUUID)
        ELSE IF res.err # NoErr THEN Outcome(userRows, rows, msgRows, HandleError(res.err), ctx.userID)
        ELSE Outcome(userRows, rows, msgRows, Response(200, "Messages retrieved successfully", ""), ctx.userID)

\* MessageHandler.GetMessageByID: it does not read the identity of the context
MessageHandlerGetMessageByID(userRows, rows, msgRows, c, messageID, dbFails) ==
    LET res == MessageRepoGetByID(msgRows, messageID, dbFails)
    IN  IF res.err # NoErr THEN Outcome(userRows, rows, msgRows, HandleError(res.err), NilUUID)
        ELSE Outcome(userRows, rows, msgRows, Response(200, "Message retrieved successfully", ""), NilUUID)

\* MessageHandler.DeleteMessage without the comparison of the owner with the caller
MessageHandlerDeleteMessageAnyone(userRows, rows, msgRows, c, messageID, getFails, dbFails) ==
    LET ctx == GetUserFromContext(c)
        got == MessageRepoGetByID(msgRows, messageID, getFails)
        del == MessageRepoDelete(msgRows, messageID, dbFails)
    IN  IF ctx.err # NoErr THEN Outcome(userRows, rows, msgRows, HandleError(ctx.err), NilUUID)
        ELSE IF got.err # NoErr THEN Outcome(userRows, rows, msgRows, HandleError(got.err), ctx.userID)
        ELSE IF del.err # NoErr THEN Outcome(userRows, rows, del.rows, HandleError(del.err), ctx.userID)
        ELSE Outcome(userRows, rows, del.rows, Response(200, "Message deleted successfully", ""), ctx.userID)

\* MessageHandler.DeleteMessage
MessageHandlerDeleteMessage(userRows, rows, msgRows, c, messageID, getFails, dbFails) ==
    LET ctx == GetUserFromContext(c)
        got == MessageRepoGetByID(msgRows, messageID, getFails)
        del == MessageRepoDelete(msgRows, messageID, dbFails)
    IN  IF ctx.err # NoErr THEN Outcome(userRows, rows, msgRows, HandleError(ctx.err), NilUUID)
        ELSE IF got.err # NoErr THEN Outcome(userRows, rows, msgRows, HandleError(got.err), ctx.userID)
        ELSE IF got.message.userID # ctx.userID
        THEN Outcome(userRows, rows, msgRows,
                     Response(403, "Forbidden", "You can only delete your own messages"), ctx.userID)
        ELSE IF del.err # NoErr THEN Outcome(userRows, rows, del.rows, HandleError(del.err), ctx.userID)
        ELSE Outcome(userRows, rows, del.rows, Response(200, "Message deleted successfully", ""), ctx.userID)

(* -------------------------------- state ------------------------------- *)
VARIABLES
    now,          \* the wall clock, in ticks
    users,        \* the rows of the users table
    sessions,     \* the rows of the sessions table
    messages,     \* the rows of the messages table
    nextUserID,   \* the uuid.New() values not yet drawn, per table
    nextSessionID,
    nextMessageID,
    issued,       \* history: the tokens handed out in created sessions
    dead,         \* history: the issued tokens whose validation failed because
                  \* the session had expired or been deleted
    requests,     \* the number of HTTP requests served
    pending,      \* the Register calls that passed the existence pre-check
                  \* and have not yet inserted
    ret           \* the last call or request and its outcome

vars == <<now, users, sessions, messages, nextUserID, nextSessionID, nextMessageID, issued, dead,
          requests, pending, ret>>

\* The session stored under a token, or NoSession
Stored(rows, token) ==
    IF \E s \in rows : s.token = token THEN CHOOSE s \in rows : s.token = token ELSE NoSession

NoCall ==
    [op |-> "none", header |-> MissingHeader, token |-> EmptyToken, userID |-> NilUUID,
     pre |-> NoSession, session |-> NoSession, err |-> NoErr, resp |-> NoResponse,
     mw |-> "none", ran |-> FALSE, fault |-> "none", t0 |-> 0, chained |-> FALSE, c0 |-> 0,
     username |-> "", email |-> "", secret |-> "", user |-> NoUser,
     hashed |-> "", hash |-> Cleared, ok |-> FALSE, messageID |-> NilUUID, content |-> ""]

\* The sequences of n clock reads a call can make from the current time
RECURSIVE Mono(_, _, _)
Mono(n, lo, hi) ==
    IF n = 0 THEN {<<>>}
    ELSE UNION {{<<v>> \o s : s \in Mono(n - 1, v, hi)} : v \in lo..hi}

Reads(n) == Mono(n, now, Min(now + MaxDrift, MaxTime))

\* The tokens a client can present
Forge(token) == [token EXCEPT !.key = OtherKey]
TokenInputs == issued \cup {EmptyToken, Garbage}

\* The Authorization headers a request can carry.  net/http trims the value
\* of a header, so "Bearer " followed by nothing arrives as "Bearer".
Headers ==
    {MissingHeader} \cup {Bearer(t) : t \in TokenInputs \ {EmptyToken}}
      \cup {[prefix |-> "Basic ", token |-> t] : t \in {s.token : s \in sessions}}

Emails == {"a@x.com", "c@x.com"}
Passwords == {"secret123"}
WrongPasswords == {"hunter22"}
Accounts == {<<"alice", "a@x.com">>}
ProfileUpdates == {<<"", "">>, <<"carol", "c@x.com">>}
Contents == {"hello"}

Init ==
    /\ now = 0
    /\ users = {}
    /\ sessions = {}
    /\ messages = {}
    /\ nextUserID = 1
    /\ nextSessionID = 1
    /\ nextMessageID = 1
    /\ issued = {}
    /\ dead = {}
    /\ requests = 0
    /\ pending = {}
    /\ ret = NoCall

\* The issued tokens a failed validation shows to be expired or deleted:
\* the lookup ran against the table and found no row or an expired one
Died(rows, token, r, getFails, val) ==
    IF /\ token \in issued
       /\ val.err # NoErr
       /\ ~ getFails
       /\ \/ Stored(rows, token) = NoSession
          \/ Stored(rows, token).expiresAt < r[2]
    THEN {token} ELSE {}

(* ------------------------------- actions ------------------------------ *)
\* Calls and requests are served one at a time: ret holds the outcome of the
\* one just served until it has been delivered
Idle == ret = NoCall

\* the outcome is delivered to the caller
Return ==
    /\ ~ Idle
    /\ ret' = NoCall
    /\ UNCHANGED <<pending, now, users, sessions, messages, nextUserID, nextSessionID, nextMessageID, issued, dead, requests>>

\* time passes between calls
Tick ==
    /\ Idle
    /\ now < MaxTime
    /\ now' = now + 1
    /\ UNCHANGED <<pending, users, sessions, messages, nextUserID, nextSessionID, nextMessageID, issued, dead,
                   requests, ret>>

\* a call of sessionUsecase.CreateSession
CreateSessionCall ==
    /\ Idle
    /\ nextSessionID <= MaxSessionIds
    /\ \E userID \in {NilUUID} \cup UserIDs, r \in Reads(7), fault \in {"none", "sign", "db"} :
         LET signFails == fault = "sign"
             res == CreateSession(sessions, users, userID, nextSessionID, r, signFails, fault = "db") IN
         /\ sessions' = res.rows
         /\ nextSessionID' = IF signFails THEN nextSessionID ELSE nextSessionID + 1
         /\ issued' = IF res.err = NoErr THEN issued \cup {res.session.token} ELSE issued
         /\ now' = r[7]
         /\ ret' = [NoCall EXCEPT !.op = "CreateSession", !.userID = userID, !.token = res.token,
                                  !.pre = Stored(sessions, res.token),
                                  !.session = res.session, !.err = res.err, !.ran = res.called,
                                  !.fault = fault, !.t0 = now]
         /\ UNCHANGED <<pending, users, messages, nextUserID, nextMessageID, dead, requests>>

\* a call of sessionUsecase.ValidateSession, either on its own or by the
\* caller of a createSession that has just returned a session, with the
\* token of that session (chained; c0 is the time that createSession began).
\* track says whether the history variable dead follows the call
ValidateSessionStep(track) ==
    \E token \in TokenInputs, r \in Reads(3), fault \in {"none", "get", "del"} :
         LET res == ValidateSession(sessions, token, r, fault = "get", fault = "del")
             chained == ret.op = "CreateSession" /\ ret.err = NoErr /\ token = ret.session.token
         IN
         /\ Idle \/ chained
         /\ sessions' = res.rows
         /\ dead' = IF track THEN dead \cup Died(sessions, token, r, fault = "get", res) ELSE dead
         /\ now' = r[3]
         /\ ret' = [NoCall EXCEPT !.op = "ValidateSession", !.token = token,
                                  !.userID = IF chained THEN ret.userID ELSE NilUUID,
                                  !.pre = Stored(sessions, token),
                                  !.session = res.session, !.err = res.err, !.ran = TRUE,
                                  !.fault = fault, !.t0 = now, !.chained = chained,
                                  !.c0 = IF chained THEN ret.t0 ELSE 0]
         /\ UNCHANGED <<pending, users, messages, nextUserID, nextSessionID, nextMessageID, issued, requests>>

ValidateSessionCall == ValidateSessionStep(FALSE)

ValidateSessionTracked == ValidateSessionStep(TRUE)

\* a call of sessionUsecase.DeleteSession
DeleteSessionCall ==
    /\ Idle
    /\ \E token \in TokenInputs, fault \in {"none", "db"} :
         LET res == DeleteSession(sessions, token, fault = "db") IN
         /\ sessions' = res.rows
         /\ ret' = [NoCall EXCEPT !.op = "DeleteSession", !.token = token,
                                  !.pre = Stored(sessions, token),
                                  !.err = res.err, !.ran = TRUE, !.fault = fault, !.t0 = now]
         /\ UNCHANGED <<pending, now, users, messages, nextUserID, nextSessionID, nextMessageID, issued, dead, requests>>

\* a call of userUsecase.Register
RegisterCall ==
    /\ Idle
    /\ nextUserID <= MaxUsers
    /\ \E account \in Accounts, password \in Passwords, salt \in Salts, fault \in {"none", "get", "db"} :
         LET username == account[1]
             email == account[2]
             getFails == fault = "get"
             res == Register(users, username, email, password, nextUserID, salt, getFails, FALSE, fault = "db") IN
         /\ users' = res.rows
         /\ nextUserID' = IF GetByEmail(users, email, getFails).user = NoUser
                          THEN nextUserID + 1 ELSE nextUserID
         /\ ret' = [NoCall EXCEPT !.op = "RegisterUser", !.userID = res.user.id, !.err = res.err,
                                  !.ran = TRUE, !.fault = fault, !.t0 = now]
         /\ UNCHANGED <<pending, now, sessions, messages, nextSessionID, nextMessageID, issued, dead, requests>>

\* a call of userUsecase.DeleteUser
DeleteUserCall ==
    /\ Idle
    /\ \E userID \in UserIDs, failAt \in 0..5 :
         LET res == DeleteUser(users, sessions, messages, userID, failAt) IN
         /\ users' = res.users
         /\ sessions' = res.sessions
         /\ messages' = res.messages
         /\ ret' = [NoCall EXCEPT !.op = "DeleteUser", !.userID = userID, !.err = res.err,
                                  !.ran = TRUE, !.fault = IF failAt = 0 THEN "none" ELSE "db", !.t0 = now]
         /\ UNCHANGED <<pending, now, nextUserID, nextSessionID, nextMessageID, issued, dead, requests>>

\* UserHandler.Register (POST /register): the body is bound and checked
\* (username required,min=3; email required,email; password required,min=6),
\* the account is registered, then a session is created for it
RegisterRequest ==
    /\ Idle
    /\ requests < MaxRequests
    /\ requests' = requests + 1
    /\ nextUserID <= MaxUsers
    /\ nextSessionID <= MaxSessionIds
    /\ \E account \in Accounts, password \in Passwords, salt \in Salts,
          r \in Reads(7), fault \in {"none", "get", "db", "session"} :
         LET username == account[1]
             email == account[2]
             getFails == fault = "get"
             dbFails == fault = "db"
             sessFails == fault = "session"
             bound == /\ username # "" /\ Len(username) >= 3
                      /\ email # "" /\ IsEmail(email)
                      /\ password # "" /\ Len(password) >= 6
             reg == Register(users, username, email, password, nextUserID, salt, getFails, FALSE, dbFails)
             cre == CreateSession(sessions, reg.rows, reg.user.id, nextSessionID, r, FALSE, sessFails)
             ok == bound /\ reg.err = NoErr
         IN
         /\ ok \/ (r \in Mono(7, now, now) /\ fault # "session")
         /\ users' = IF bound THEN reg.rows ELSE users
         /\ sessions' = IF ok THEN cre.rows ELSE sessions
         /\ nextUserID' = IF bound /\ GetByEmail(users, email, getFails).user = NoUser
                          THEN nextUserID + 1 ELSE nextUserID
         /\ nextSessionID' = IF ok THEN nextSessionID + 1 ELSE nextSessionID
         /\ issued' = IF ok /\ cre.err = NoErr THEN issued \cup {cre.session.token} ELSE issued
         /\ now' = IF ok THEN r[7] ELSE now
         /\ ret' = [NoCall EXCEPT
                      !.op = "Register", !.username = username, !.email = email, !.secret = password,
                      !.userID = IF ok THEN reg.user.id ELSE NilUUID,
                      !.session = IF ok THEN cre.session ELSE NoSession,
                      !.err = IF ~ bound THEN Err("validator", "binding failed")
                              ELSE IF reg.err # NoErr THEN reg.err ELSE cre.err,
                      !.resp = IF ~ bound THEN Response(400, "Invalid request", "binding failed")
                               ELSE IF reg.err # NoErr THEN HandleError(reg.err)
                               ELSE IF cre.err # NoErr
                               THEN Response(200, "Registration successful but login failed", "Please login manually")
                               ELSE Response(201, "User registered successfully", ""),
                      !.ran = TRUE, !.fault = fault, !.t0 = now]
         /\ UNCHANGED <<pending, messages, nextMessageID, dead>>

\* UserHandler.Login (POST /login): the body is bound and checked (email
\* required,email; password required), the credentials are verified, then a
\* session is created
LoginRequest ==
    /\ Idle
    /\ requests < MaxRequests
    /\ requests' = requests + 1
    /\ nextSessionID <= MaxSessionIds
    /\ \E email \in Emails, password \in Passwords \cup WrongPasswords, r \in Reads(7),
          fault \in {"none", "get", "session"} :
         LET getFails == fault = "get"
             sessFails == fault = "session"
             bound == email # "" /\ IsEmail(email) /\ password # ""
             log == Login(users, email, password, getFails)
             cre == CreateSession(sessions, users, log.user.id, nextSessionID, r, FALSE, sessFails)
             ok == bound /\ log.err = NoErr
         IN
         /\ ok \/ (r \in Mono(7, now, now) /\ fault # "session")
         /\ sessions' = IF ok THEN cre.rows ELSE sessions
         /\ nextSessionID' = IF ok THEN nextSessionID + 1 ELSE nextSessionID
         /\ issued' = IF ok /\ cre.err = NoErr THEN issued \cup {cre.session.token} ELSE issued
         /\ now' = IF ok THEN r[7] ELSE now
         /\ ret' = [NoCall EXCEPT
                      !.op = "Login", !.email = email, !.secret = password,
                      !.userID = IF ok THEN log.user.id ELSE NilUUID,
                      !.session = IF ok THEN cre.session ELSE NoSession,
                      !.err = IF ~ bound THEN Err("validator", "binding failed")
                              ELSE IF log.err # NoErr THEN log.err ELSE cre.err,
                      !.resp = IF ~ bound THEN Response(400, "Invalid request", "binding failed")
                               ELSE IF log.err # NoErr THEN HandleError(log.err)
                               ELSE IF cre.err # NoErr
                               THEN Response(500, "Login failed", "Failed to create session")
                               ELSE Response(200, "Login successful", ""),
                      !.ran = TRUE, !.fault = fault, !.t0 = now]
         /\ UNCHANGED <<pending, users, messages, nextUserID, nextMessageID, dead>>

\* The requests explored for a route of the protected group: the header, the
\* clock reads of the middleware and the fault injected.  The reads are told
\* apart only when they are compared with a stored session, and a fault is
\* injected only where the request can meet it.
Attempts ==
    UNION {{[header |-> h, r |-> r, fault |-> f] :
              r \in IF h.prefix = "Bearer " /\ Stored(sessions, h.token) # NoSession
                    THEN Reads(3) ELSE Mono(3, now, now),
              f \in IF h.prefix = "Bearer " /\ Stored(sessions, h.token) # NoSession
                    THEN {"none", "get", "del", "handler"} ELSE {"none"}}
           : h \in Headers}

\* A request to a route of the protected group: AuthMiddleware runs first and
\* the handler H only when the middleware did not abort.  Inputs(fault) are
\* the inputs of the handler (path parameter, body, failing statement).
Protected(op, Inputs(_), H(_, _, _)) ==
    /\ Idle
    /\ requests < MaxRequests
    /\ requests' = requests + 1
    /\ \E a \in Attempts :
        /\ a.fault \in {"get", "handler"} => a.r \in Mono(3, now, now)
        /\ \E mw \in {AuthMiddleware(sessions, a.header, a.r, a.fault = "get", a.fault = "del")} :
            /\ a.fault = "del" => mw.err.msg = "session expired"
            /\ a.fault = "handler" => ~ mw.abort
            /\ \E in \in IF mw.abort THEN {0} ELSE Inputs(a.fault) :
               \E out \in {IF mw.abort THEN Outcome(users, mw.rows, messages, mw.resp, NilUUID)
                           ELSE H(mw, in, a)} :
                /\ users' = out.users
                /\ sessions' = out.sessions
                /\ messages' = out.messages
                /\ now' = a.r[3]
                /\ ret' = [NoCall EXCEPT
                             !.op = op, !.header = a.header, !.token = TrimPrefix(a.header).token,
                             !.userID = out.actor, !.pre = Stored(sessions, TrimPrefix(a.header).token),
                             !.session = mw.session, !.err = mw.err, !.resp = out.resp,
                             !.mw = IF ~ mw.called THEN "rejected"
                                    ELSE IF mw.abort THEN "failed" ELSE "ok",
                             !.ran = ~ mw.abort, !.fault = a.fault, !.t0 = now,
                             !.messageID = IF op \in {"GetMessageByID", "DeleteMessage"} /\ ~ mw.abort
                                           THEN in ELSE NilUUID]
                /\ UNCHANGED <<pending, nextUserID, nextSessionID, issued, dead>>

NoInput(fault) == {0}

\* GET /profile
GetProfileRequest ==
    /\ Protected("GetProfile", NoInput,
                 LAMBDA mw, in, a : UserHandlerGetProfile(users, mw.rows, messages, Context(mw), a.fault = "handler"))
    /\ UNCHANGED nextMessageID

\* PUT /profile
UpdateProfileRequest ==
    /\ Protected("UpdateProfile", LAMBDA fault : ProfileUpdates,
                 LAMBDA mw, in, a : UserHandlerUpdateProfile(users, mw.rows, messages, Context(mw),
                                                                 in[1], in[2], FALSE, a.fault = "handler"))
    /\ UNCHANGED nextMessageID

\* POST /logout
LogoutRequest ==
    /\ Protected("Logout", NoInput,
                 LAMBDA mw, in, a : UserHandlerLogout(users, mw.rows, messages, Context(mw),
                                                          a.header, a.fault = "handler"))
    /\ UNCHANGED nextMessageID

\* DELETE /profile; the input is the statement of the transaction that fails
DeleteUserRequest ==
    /\ Protected("DeleteUser", LAMBDA fault : IF fault = "handler" THEN 1..5 ELSE {0},
                 LAMBDA mw, in, a : UserHandlerDeleteUser(users, mw.rows, messages, Context(mw), in))
    /\ UNCHANGED nextMessageID

\* POST /messages
CreateMessageRequest ==
    /\ nextMessageID <= MaxMessageIds
    /\ Protected("CreateMessage", LAMBDA fault : Contents,
                 LAMBDA mw, in, a : MessageHandlerCreateMessage(users, mw.rows, messages, Context(mw),
                                                                    in, nextMessageID, <<a.r[3], a.r[3]>>,
                                                                    FALSE, a.fault = "handler"))
    /\ nextMessageID' = IF messages' # messages THEN nextMessageID + 1 ELSE nextMessageID

\* GET /messages/my
GetMessagesByUserRequest ==
    /\ Protected("GetMessagesByUser", NoInput,
                 LAMBDA mw, in, a : MessageHandlerGetMessagesByUser(users, mw.rows, messages, Context(mw),
                                                                        FALSE, a.fault = "handler"))
    /\ UNCHANGED nextMessageID

\* GET /messages/:id
GetMessageByIDRequest ==
    /\ Protected("GetMessageByID", LAMBDA fault : 1..MaxMessageIds,
                 LAMBDA mw, in, a : MessageHandlerGetMessageByID(users, mw.rows, messages, Context(mw),
                                                                     in, a.fault = "handler"))
    /\ UNCHANGED nextMessageID

\* DELETE /messages/:id
DeleteMessageRequest ==
    /\ Protected("DeleteMessage", LAMBDA fault : 1..MaxMessageIds,
                 LAMBDA mw, in, a : MessageHandlerDeleteMessage(users, mw.rows, messages, Context(mw),
                                                                    in, FALSE, a.fault = "handler"))
    /\ UNCHANGED nextMessageID

\* The session manager and the account manager, called directly
Next ==
    \/ Tick
    \/ Return
    \/ RegisterCall
    \/ DeleteUserCall
    \/ CreateSessionCall
    \/ ValidateSessionCall
    \/ DeleteSessionCall

Spec == Init /\ [][Next]_vars

\* The same calls, with the history of failed validations kept in dead
NextLifecycle ==
    \/ Tick
    \/ Return
    \/ RegisterCall
    \/ DeleteUserCall
    \/ CreateSessionCall
    \/ ValidateSessionTracked
    \/ DeleteSessionCall

SpecLifecycle == Init /\ [][NextLifecycle]_vars

\* The program as wired in main: every call comes from an HTTP request
NextHttp ==
    \/ Tick
    \/ Return
    \/ RegisterRequest
    \/ LoginRequest
    \/ GetProfileRequest
    \/ UpdateProfileRequest
    \/ LogoutRequest
    \/ DeleteUserRequest
    \/ CreateMessageRequest
    \/ GetMessagesByUserRequest
    \/ GetMessageByIDRequest
    \/ DeleteMessageRequest

SpecHttp == Init /\ [][NextHttp]_vars

(* ---------------------- the user account manager ---------------------- *)
\* The calls of userUsecase, with the session and message calls that give an
\* account something to own
MaxAccounts == 2
AccountIDs == 1..MaxAccounts
Usernames == {"", "al", "alice", "bobby"}
Addresses == {"", "a@x.com", "b@x.com"}
Secrets == {"", "secret123", "hunter22"}
NewSecrets == {"", "newsecret1"}

\* a call of userUsecase.Register.  A uuid.New() value that was not stored
\* is never seen again, so an id is counted as drawn when it is stored.
UserRegister ==
    /\ Idle
    /\ nextUserID <= MaxAccounts
    /\ \E username \in Usernames, email \in Addresses, password \in Secrets, salt \in Salts,
          fault \in {"none", "get", "hash", "db"} :
         \E res \in {Register(users, username, email, password, nextUserID, salt,
                              fault = "get", fault = "hash", fault = "db")} :
            /\ users' = res.rows
            /\ nextUserID' = IF res.err = NoErr THEN nextUserID + 1 ELSE nextUserID
            /\ ret' = [NoCall EXCEPT !.op = "UserRegister", !.username = username, !.email = email,
                                     !.secret = password, !.user = res.user, !.userID = res.user.id,
                                     !.err = res.err, !.resp = HandleError(res.err),
                                     !.ran = TRUE, !.fault = fault]
            /\ UNCHANGED <<pending, now, sessions, messages, nextSessionID, nextMessageID, issued, dead, requests>>

\* a call of userUsecase.Login; resp is what UserHandler.Login answers to a failure
UserLogin ==
    /\ Idle
    /\ \E email \in Addresses, password \in Secrets, fault \in {"none", "get"} :
         \E res \in {Login(users, email, password, fault = "get")} :
            /\ ret' = [NoCall EXCEPT !.op = "UserLogin", !.email = email, !.secret = password,
                                     !.user = res.user, !.userID = res.user.id, !.err = res.err,
                                     !.resp = HandleError(res.err), !.ran = TRUE, !.fault = fault]
            /\ UNCHANGED <<pending, now, users, sessions, messages, nextUserID, nextSessionID, nextMessageID,
                           issued, dead, requests>>

\* a call of userUsecase.GetProfile
UserGetProfile ==
    /\ Idle
    /\ \E userID \in {NilUUID} \cup AccountIDs, fault \in {"none", "get"} :
         \E res \in {GetProfile(users, userID, fault = "get")} :
            /\ ret' = [NoCall EXCEPT !.op = "UserGetProfile", !.userID = userID, !.user = res.user,
                                     !.err = res.err, !.ran = TRUE, !.fault = fault]
            /\ UNCHANGED <<pending, now, users, sessions, messages, nextUserID, nextSessionID, nextMessageID,
                           issued, dead, requests>>

\* a call of userUsecase.UpdateProfile with a user record of the caller's making
UserUpdateProfile ==
    /\ Idle
    /\ \E userID \in AccountIDs, username \in Usernames, email \in Addresses, password \in NewSecrets,
          fault \in {"none", "db"} :
         \E res \in {UpdateProfile(users, [id |-> userID, username |-> username, email |-> email,
                                           password |-> Clear(password)], fault = "db")} :
            /\ users' = res.rows
            /\ ret' = [NoCall EXCEPT !.op = "UserUpdateProfile", !.userID = userID, !.username = username,
                                     !.email = email, !.secret = password, !.err = res.err,
                                     !.ran = TRUE, !.fault = fault]
            /\ UNCHANGED <<pending, now, sessions, messages, nextUserID, nextSessionID, nextMessageID,
                           issued, dead, requests>>

\* a call of userUsecase.DeleteUser; failAt is the statement of the
\* transaction that fails
UserDelete ==
    /\ Idle
    /\ \E userID \in {NilUUID} \cup AccountIDs, failAt \in 0..5 :
         \E res \in {DeleteUser(users, sessions, messages, userID, failAt)} :
            /\ users' = res.users
            /\ sessions' = res.sessions
            /\ messages' = res.messages
            /\ ret' = [NoCall EXCEPT !.op = "UserDelete", !.userID = userID, !.err = res.err,
                                     !.ran = TRUE, !.fault = IF failAt = 0 THEN "none" ELSE "db"]
            /\ UNCHANGED <<pending, now, nextUserID, nextSessionID, nextMessageID, issued, dead, requests>>

\* a session is created for an account (sessionUsecase.CreateSession)
UserCreateSession ==
    /\ Idle
    /\ nextSessionID <= MaxSessionIds
    /\ \E userID \in AccountIDs :
         \E res \in {CreateSession(sessions, users, userID, nextSessionID, [i \in 1..7 |-> now], FALSE, FALSE)} :
            /\ res.err = NoErr
            /\ sessions' = res.rows
            /\ nextSessionID' = nextSessionID + 1
            /\ issued' = issued \cup {res.session.token}
            /\ ret' = [NoCall EXCEPT !.op = "CreateSession", !.userID = userID, !.token = res.token,
                                     !.session = res.session, !.ran = TRUE]
            /\ UNCHANGED <<pending, now, users, messages, nextUserID, nextMessageID, dead, requests>>

\* a message is posted by an account (messageUsecase.CreateMessage)
UserCreateMessage ==
    /\ Idle
    /\ nextMessageID <= MaxMessageIds
    /\ \E userID \in AccountIDs, content \in Contents :
         \E res \in {CreateMessage(messages, users, userID, content, nextMessageID, <<now, now>>, FALSE, FALSE)} :
            /\ res.err = NoErr
            /\ messages' = res.rows
            /\ nextMessageID' = nextMessageID + 1
            /\ ret' = [NoCall EXCEPT !.op = "CreateMessage", !.userID = userID, !.ran = TRUE]
            /\ UNCHANGED <<pending, now, users, sessions, nextUserID, nextSessionID, issued, dead, requests>>

NextUser ==
    \/ Return
    \/ UserRegister
    \/ UserLogin
    \/ UserGetProfile
    \/ UserUpdateProfile
    \/ UserDelete
    \/ UserCreateSession
    \/ UserCreateMessage

SpecUser == Init /\ [][NextUser]_vars

(* ---------------------- concurrent registrations --------------------- *)
\* Register calls running at the same time.  A call touches the users table
\* twice, in the pre-check and in the insert, and other calls can run in
\* between: RegisterBegin is the call up to the pre-check, RegisterFinish
\* the rest of it.
RaceUsernames == {"alice", "bobby"}
RaceAddresses == {"a@x.com", "b@x.com"}

\* Register is called and makes its existence pre-check
RegisterBegin ==
    /\ Idle
    /\ requests < MaxRequests
    /\ requests' = requests + 1
    /\ \E username \in RaceUsernames, email \in RaceAddresses, password \in Passwords :
         IF GetByEmail(users, email, FALSE).user # NoUser
         THEN /\ ret' = [NoCall EXCEPT !.op = "UserRegister", !.username = username, !.email = email,
                                       !.secret = password,
                                       !.err = Register(users, username, email, password, nextUserID, 1,
                                                        FALSE, FALSE, FALSE).err,
                                       !.t0 = requests + 1]
              /\ UNCHANGED pending
         ELSE /\ pending' = pending \cup {[call |-> requests + 1, username |-> username,
                                           email |-> email, secret |-> password]}
              /\ UNCHANGED ret
    /\ UNCHANGED <<now, users, sessions, messages, nextUserID, nextSessionID, nextMessageID, issued, dead>>

\* a call that passed the pre-check hashes, validates and inserts; ran says
\* that the call got as far as the insert
RegisterFinish ==
    /\ Idle
    /\ \E p \in pending, salt \in Salts :
         \E res \in {RegisterInsert(users, p.username, p.email, p.secret, nextUserID, salt, FALSE, FALSE)} :
            /\ res.err = NoErr => nextUserID <= MaxAccounts
            /\ pending' = pending \ {p}
            /\ users' = res.rows
            /\ nextUserID' = IF res.err = NoErr THEN nextUserID + 1 ELSE nextUserID
            /\ ret' = [NoCall EXCEPT !.op = "UserRegister", !.username = p.username, !.email = p.email,
                                     !.secret = p.secret, !.user = res.user, !.userID = res.user.id,
                                     !.err = res.err, !.ran = TRUE, !.t0 = p.call]
    /\ UNCHANGED <<now, sessions, messages, nextSessionID, nextMessageID, issued, dead, requests>>

NextRace ==
    \/ Return
    \/ RegisterBegin
    \/ RegisterFinish

SpecRace == Init /\ [][NextRace]_vars

(* --------------------------- the token service ------------------------ *)
\* The calls of jwtService on their own.  The key field of a token is the
\* key under which its signature verifies: a token whose payload or
\* signature was altered after signing verifies under no key.
MaxTokens == 2
Alter(token) == [token EXCEPT !.key = "none"]
Presented == issued \cup {Forge(t) : t \in issued} \cup {Alter(t) : t \in issued}
               \cup {EmptyToken, Garbage}

\* a call of jwtService.GenerateToken
TokenIssue ==
    /\ Idle
    /\ Cardinality(issued) < MaxTokens
    /\ \E userID \in {NilUUID} \cup UserIDs, r \in Reads(3), fault \in {"none", "sign"} :
         \E res \in {GenerateToken(userID, r[1], r[2], r[3], fault = "sign")} :
            /\ issued' = IF res.err = NoErr THEN issued \cup {res.token} ELSE issued
            /\ now' = r[3]
            /\ ret' = [NoCall EXCEPT !.op = "GenerateToken", !.userID = userID, !.token = res.token,
                                     !.err = res.err, !.ran = TRUE, !.fault = fault, !.t0 = now]
            /\ UNCHANGED <<pending, users, sessions, messages, nextUserID, nextSessionID, nextMessageID,
                           dead, requests>>

\* a call of jwtService.ValidateToken; its clock read is the time it returns
TokenVerify ==
    /\ Idle
    /\ \E token \in Presented, r \in Reads(1) :
         \E res \in {ValidateToken(token, r[1])} :
            /\ now' = r[1]
            /\ ret' = [NoCall EXCEPT !.op = "ValidateToken", !.token = token, !.userID = res.userID,
                                     !.err = res.err, !.ran = TRUE, !.t0 = now]
            /\ UNCHANGED <<pending, users, sessions, messages, nextUserID, nextSessionID, nextMessageID,
                           issued, dead, requests>>

NextToken ==
    \/ Tick
    \/ Return
    \/ TokenIssue
    \/ TokenVerify

SpecToken == Init /\ [][NextToken]_vars

(* --------------------------- the hash service ------------------------- *)
\* The calls of hashService on their own
Long72 == "aaaaaaaaaabbbbbbbbbbccccccccccddddddddddeeeeeeeeeeffffffffffgggggggggghh"
HashInputs == {"", "test", "secret123", "hunter22", Long72, Long72 \o "x", Long72 \o "y"}
HashSalts == {1, 2}
Malformed == {Cleared, Clear("invalid_hash_format")}

\* a call of hashService.HashPassword.  bcrypt.GenerateFromPassword can fail
\* for any password when it cannot read random bytes; a password of more
\* than 72 bytes is hashed or refused, according to the release of the library.
HashPasswordCall ==
    /\ Idle
    /\ \E password \in HashInputs, salt \in HashSalts, hashFails \in BOOLEAN :
         \E res \in {HashPassword(password, salt, hashFails)} :
            ret' = [NoCall EXCEPT !.op = "HashPassword", !.hashed = password, !.hash = res.hash,
                                  !.err = res.err, !.ran = TRUE,
                                  !.fault = IF hashFails THEN "hash" ELSE "none"]
    /\ UNCHANGED <<pending, now, users, sessions, messages, nextUserID, nextSessionID, nextMessageID,
                   issued, dead, requests>>

\* a call of hashService.CheckPasswordHash with the hash that HashPassword
\* has just returned
CheckPasswordHashCall ==
    /\ ret.op = "HashPassword"
    /\ ret.err = NoErr
    /\ \E password \in HashInputs :
         ret' = [NoCall EXCEPT !.op = "CheckPasswordHash", !.hashed = ret.hashed, !.hash = ret.hash,
                               !.secret = password, !.ok = CheckPasswordHash(password, ret.hash),
                               !.ran = TRUE, !.chained = TRUE]
    /\ UNCHANGED <<pending, now, users, sessions, messages, nextUserID, nextSessionID, nextMessageID,
                   issued, dead, requests>>

\* a call of hashService.CheckPasswordHash with a string that is no hash
CheckMalformedCall ==
    /\ Idle
    /\ \E password \in HashInputs, hash \in Malformed :
         ret' = [NoCall EXCEPT !.op = "CheckPasswordHash", !.hash = hash, !.secret = password,
                               !.ok = CheckPasswordHash(password, hash), !.ran = TRUE]
    /\ UNCHANGED <<pending, now, users, sessions, messages, nextUserID, nextSessionID, nextMessageID,
                   issued, dead, requests>>

NextHash ==
    \/ Return
    \/ HashPasswordCall
    \/ CheckPasswordHashCall
    \/ CheckMalformedCall

SpecHash == Init /\ [][NextHash]_vars

(* --------------------------- the message board ------------------------ *)
\* Two accounts, their sessions, and the message routes of the protected
\* group
TwoAccounts == {<<"alice", "a@x.com">>, <<"bobby", "b@x.com">>}

RECURSIVE Repeat(_, _)
Repeat(text, n) == IF n = 0 THEN "" ELSE text \o Repeat(text, n - 1)

\* The contents posted: none, a short one, the longest accepted (1000
\* bytes) and the shortest rejected
MessageContents == {"", "hello", Repeat("0123456789", 100), Repeat("0123456789", 100) \o "x"}

\* an account is registered (userUsecase.Register)
RegisterAccount ==
    /\ Idle
    /\ nextUserID <= MaxAccounts
    /\ \E account \in TwoAccounts, salt \in Salts :
         \E res \in {Register(users, account[1], account[2], "secret123", nextUserID, salt,
                              FALSE, FALSE, FALSE)} :
            /\ res.err = NoErr
            /\ users' = res.rows
            /\ nextUserID' = nextUserID + 1
            /\ ret' = [NoCall EXCEPT !.op = "UserRegister", !.username = account[1], !.email = account[2],
                                     !.secret = "secret123", !.user = res.user, !.userID = res.user.id,
                                     !.ran = TRUE]
            /\ UNCHANGED <<pending, now, sessions, messages, nextSessionID, nextMessageID, issued, dead, requests>>

\* a call of messageUsecase.CreateMessage
CreateMessageCall ==
    /\ Idle
    /\ nextMessageID <= MaxMessageIds
    /\ \E userID \in {NilUUID} \cup AccountIDs, content \in MessageContents, r \in Reads(2),
          fault \in {"none", "get", "db"} :
         \E res \in {CreateMessage(messages, users, userID, content, nextMessageID, r,
                                   fault = "get", fault = "db")} :
            /\ messages' = res.rows
            /\ now' = r[2]
            /\ nextMessageID' = IF res.err = NoErr THEN nextMessageID + 1 ELSE nextMessageID
            /\ ret' = [NoCall EXCEPT !.op = "CreateMessageCall", !.userID = userID, !.content = content,
                                     !.messageID = res.message.id, !.err = res.err,
                                     !.resp = HandleError(res.err), !.ran = TRUE, !.fault = fault,
                                     !.t0 = now]
            /\ UNCHANGED <<pending, users, sessions, nextUserID, nextSessionID, issued, dead, requests>>

NextMessage ==
    \/ Return
    \/ RegisterAccount
    \/ UserCreateSession
    \/ UserDelete
    \/ CreateMessageRequest
    \/ GetMessageByIDRequest
    \/ DeleteMessageRequest

SpecMessage == Init /\ [][NextMessage]_vars

\* messageUsecase.CreateMessage called for accounts that come and go
NextCreateMessage ==
    \/ Return
    \/ RegisterAccount
    \/ UserDelete
    \/ CreateMessageCall

SpecCreateMessage == Init /\ [][NextCreateMessage]_vars

(* ------------------ account deletion among other calls --------------- *)
\* userRepo.Delete runs its three DELETE statements in one transaction
\* while Login, CreateSession and CreateMessage calls for the same account
\* run on other connections.  PostgreSQL (READ COMMITTED) shows the other
\* connections the committed rows only; pending holds the open transaction
\* with the rows its statements have deleted, and the calls that have made
\* their lookup and not yet their insert.
InFlight(op, userID, step) ==
    [op |-> op, userID |-> userID, step |-> step, msgs |-> {}, sess |-> {}, raced |-> FALSE]

\* REFERENCES users(id) without ON DELETE CASCADE and unchecked: the rows
\* that refer to a deleted account stay
CascadeNone(rows, id) == rows

\* REFERENCES users(id) ON DELETE CASCADE: the committed rows that refer to
\* the account go with it
Cascade(rows, id) == {r \in rows : r.userID # id}

\* The account's row is deleted by a transaction that has not ended: an
\* INSERT that refers to it waits for the end of the transaction
RowLocked(id) == \E p \in pending : p.op = "DeleteUser" /\ p.userID = id /\ p.step = 3

\* an INSERT for the account committed while a transaction deleting it is open
Raced(id) ==
    {IF p.op = "DeleteUser" /\ p.userID = id THEN [p EXCEPT !.raced = TRUE] ELSE p : p \in pending}

\* userUsecase.DeleteUser up to BeginTx
DeleteUserBegin ==
    /\ Idle
    /\ requests < MaxRequests
    /\ requests' = requests + 1
    /\ ~ \E p \in pending : p.op = "DeleteUser"
    /\ \E userID \in AccountIDs :
         pending' = pending \cup {InFlight("DeleteUser", userID, 0)}
    /\ UNCHANGED <<now, users, sessions, messages, nextUserID, nextSessionID, nextMessageID, issued, dead, ret>>

\* the next statement of the transaction: DELETE FROM messages, DELETE FROM
\* sessions, then DELETE FROM users, which finds no row when the account is
\* not there and ends the call with NotFoundError and a rollback
DeleteUserStatement ==
    /\ Idle
    /\ \E p \in pending :
         /\ p.op = "DeleteUser"
         /\ p.step < 3
         /\ IF p.step = 0
            THEN /\ pending' = (pending \ {p}) \cup
                                 {[p EXCEPT !.step = 1, !.msgs = {m \in messages : m.userID = p.userID}]}
                 /\ UNCHANGED ret
            ELSE IF p.step = 1
            THEN /\ pending' = (pending \ {p}) \cup
                                 {[p EXCEPT !.step = 2, !.sess = {x \in sessions : x.userID = p.userID}]}
                 /\ UNCHANGED ret
            ELSE IF \E u \in users : u.id = p.userID
            THEN /\ pending' = (pending \ {p}) \cup {[p EXCEPT !.step = 3]}
                 /\ UNCHANGED ret
            ELSE /\ pending' = pending \ {p}
                 /\ ret' = [NoCall EXCEPT !.op = "DeleteUser", !.userID = p.userID,
                                          !.err = UserRepoDelete(users, sessions, messages, p.userID, 0).err,
                                          !.ran = TRUE]
    /\ UNCHANGED <<now, users, sessions, messages, nextUserID, nextSessionID, nextMessageID, issued, dead, requests>>

\* tx.Commit: the rows the statements deleted go, and with the account the
\* rows that refer to it
DeleteUserCommit ==
    /\ Idle
    /\ \E p \in pending :
         /\ p.op = "DeleteUser"
         /\ p.step = 3
         /\ pending' = pending \ {p}
         /\ users' = {u \in users : u.id # p.userID}
         /\ sessions' = Cascade(sessions \ p.sess, p.userID)
         /\ messages' = Cascade(messages \ p.msgs, p.userID)
         /\ ret' = [NoCall EXCEPT !.op = "DeleteUser", !.userID = p.userID, !.ran = TRUE, !.ok = p.raced]
    /\ UNCHANGED <<now, nextUserID, nextSessionID, nextMessageID, issued, dead, requests>>

\* userUsecase.Login for an account: the credentials are verified; the
\* handler creates the session afterwards
LoginBegin ==
    /\ Idle
    /\ ~ \E p \in pending : p.op = "Login"
    /\ \E account \in TwoAccounts :
         \E res \in {Login(users, account[2], "secret123", FALSE)} :
            /\ res.err = NoErr
            /\ pending' = pending \cup {InFlight("Login", res.user.id, 0)}
    /\ UNCHANGED <<now, users, sessions, messages, nextUserID, nextSessionID, nextMessageID, issued, dead,
                   requests, ret>>

\* sessionUsecase.CreateSession, called for a verified login (fromLogin) or
\* on its own: the INSERT waits while the account's row is locked
CreateSessionInsert(userID, fromLogin) ==
    /\ Idle
    /\ nextSessionID <= MaxSessionIds
    /\ ~ RowLocked(userID)
    /\ \E res \in {CreateSession(sessions, users, userID, nextSessionID, [i \in 1..7 |-> now], FALSE, FALSE)} :
         /\ sessions' = res.rows
         /\ nextSessionID' = IF res.err = NoErr THEN nextSessionID + 1 ELSE nextSessionID
         /\ issued' = IF res.err = NoErr THEN issued \cup {res.session.token} ELSE issued
         /\ pending' = {p \in IF res.err = NoErr THEN Raced(userID) ELSE pending :
                          ~ (fromLogin /\ p.op = "Login" /\ p.userID = userID)}
         /\ ret' = [NoCall EXCEPT !.op = IF fromLogin THEN "Login" ELSE "CreateSession",
                                  !.userID = userID, !.token = res.token, !.session = res.session,
                                  !.err = res.err, !.ran = TRUE]
    /\ UNCHANGED <<now, users, messages, nextUserID, nextMessageID, dead, requests>>

LoginFinish ==
    \E p \in pending : p.op = "Login" /\ CreateSessionInsert(p.userID, TRUE)

CreateSessionRace ==
    \E userID \in AccountIDs : CreateSessionInsert(userID, FALSE)

\* messageUsecase.CreateMessage up to the lookup of the user
CreateMessageBegin ==
    /\ Idle
    /\ ~ \E p \in pending : p.op = "CreateMessage"
    /\ \E userID \in AccountIDs :
         /\ GetByID(users, userID, FALSE).err = NoErr
         /\ pending' = pending \cup {InFlight("CreateMessage", userID, 0)}
    /\ UNCHANGED <<now, users, sessions, messages, nextUserID, nextSessionID, nextMessageID, issued, dead,
                   requests, ret>>

\* the rest of messageUsecase.CreateMessage: Validate and the INSERT
CreateMessageFinish ==
    /\ Idle
    /\ nextMessageID <= MaxMessageIds
    /\ \E p \in pending, content \in Contents :
         /\ p.op = "CreateMessage"
         /\ ~ RowLocked(p.userID)
         /\ \E message \in {[id |-> nextMessageID, userID |-> p.userID, content |-> content,
                              createdAt |-> now, updatedAt |-> now]} :
            \E res \in {IF MessageValidate(message) # NoErr
                        THEN [rows |-> messages, err |-> MessageValidate(message)]
                        ELSE MessageRepoCreate(messages, users, message, FALSE)} :
               /\ messages' = res.rows
               /\ nextMessageID' = IF res.err = NoErr THEN nextMessageID + 1 ELSE nextMessageID
               /\ pending' = (IF res.err = NoErr THEN Raced(p.userID) ELSE pending) \ {p}
               /\ ret' = [NoCall EXCEPT !.op = "CreateMessageCall", !.userID = p.userID,
                                        !.content = content, !.err = res.err, !.ran = TRUE]
    /\ UNCHANGED <<now, users, sessions, nextUserID, nextSessionID, issued, dead, requests>>

NextCascade ==
    \/ Return
    \/ RegisterAccount
    \/ DeleteUserBegin
    \/ DeleteUserStatement
    \/ DeleteUserCommit
    \/ LoginBegin
    \/ LoginFinish
    \/ CreateSessionRace
    \/ CreateMessageBegin
    \/ CreateMessageFinish

SpecCascade == Init /\ [][NextCascade]_vars

(* ------------------------------- claims ------------------------------- *)
\* The operations behind the routes of the protected group
ProtectedOps ==
    {"GetProfile", "UpdateProfile", "DeleteUser", "Logout",
     "CreateMessage", "GetMessagesByUser", "GetMessageByID", "DeleteMessage"}

\* C1: validateSession(token) returns a session if and only if a session with
\* that token is stored, its expiresAt has not passed, the token verifies with
\* the token service and the verified subject is the stored subject, all at
\* the time the call returns and for a call whose store lookup itself did not
\* break down; the session returned is the stored one, and in every other
\* case the call returns a failure and no session.
C1_ValidIffFourConditions ==
    (ret.op = "ValidateSession" /\ ret.fault # "get") =>
        /\ (ret.err = NoErr) <=>
              /\ ret.pre # NoSession
              /\ ~ (ret.pre.expiresAt < now)
              /\ ValidateToken(ret.token, now).err = NoErr
              /\ ValidateToken(ret.token, now).userID = ret.pre.userID
        /\ ret.err = NoErr => ret.session = ret.pre
        /\ ret.err # NoErr => ret.session = NoSession

\* a validation that succeeded for a stored, unexpired session
C1_Witness ==
    /\ ret.op = "ValidateSession"
    /\ ret.err = NoErr
    /\ ret.session \in sessions
    /\ ret.session.userID \in UserIDs

\* C2: for a stored session whose expiresAt is in the past when validateSession
\* is called with its token, the call fails with "session expired" and the
\* session is gone from the store afterwards.
C2_ExpiredIsClassifiedAndEvicted ==
    (ret.op = "ValidateSession" /\ ret.fault = "none"
       /\ ret.pre # NoSession /\ ret.pre.expiresAt < ret.t0) =>
        /\ ret.err = Err("session.BusinessError", "session expired")
        /\ Stored(sessions, ret.token) = NoSession

\* C3: once validateSession has failed for a token because its session had
\* expired or been deleted, no later validateSession with the same token
\* string succeeds.
C3_NoWayBackToValid ==
    ~ (ret.op = "ValidateSession" /\ ret.err = NoErr /\ ret.token \in dead)

C5_LogoutThenInvalid ==
    [][/\ (ret'.op = "Logout" /\ ret'.ran /\ ret'.fault = "none") =>
            /\ ret'.pre \in sessions
            /\ ret'.pre.token = ret'.token
            /\ sessions' = sessions \ {ret'.pre}
            /\ Stored(sessions', ret'.token) = NoSession
       /\ (ret'.op \in ProtectedOps /\ ret'.mw # "rejected"
             /\ ret'.token \in issued /\ Stored(sessions, ret'.token) = NoSession) =>
            /\ ret'.err = Err("session.BusinessError", "invalid session")
            /\ ~ ret'.ran
            /\ sessions' = sessions]_vars

\* a request presenting a token whose session was removed by a logout: the
\* account is still there, and the token's own expiry has not come, so the
\* session was neither deleted with the account nor evicted as expired
C5_Witness ==
    /\ ret.op \in ProtectedOps
    /\ ret.token \in issued
    /\ ret.pre = NoSession
    /\ users # {}
    /\ now < ret.token.exp
    /\ ret.err = Err("session.BusinessError", "invalid session")

\* the time within which a validation counts as immediate: the lifetime of
\* the token less the second that the truncation of its expiry can take
Immediate == TokenTTL - TicksPerSec

\* C6: createSession(U) that returned a session, followed immediately by
\* validateSession with the returned token and with the store operational,
\* succeeds and returns a session whose subject is U.
C6_CreateThenValidate ==
    (ret.op = "ValidateSession" /\ ret.chained /\ ret.fault = "none" /\ now - ret.c0 <= Immediate) =>
        /\ ret.err = NoErr
        /\ ret.userID # NilUUID
        /\ ret.session.userID = ret.userID
        /\ ret.session.token = ret.token

\* a validation chained to the createSession of a registered identity, which
\* succeeded for that identity
C6_Witness ==
    /\ ret.op = "ValidateSession"
    /\ ret.chained
    /\ ret.fault = "none"
    /\ now - ret.c0 <= Immediate
    /\ ret.err = NoErr
    /\ ret.userID \in UserIDs
    /\ ret.session.userID = ret.userID

\* C7: a createSession that fails returns no session, and when it failed at
\* persistence no session with the issued token is in the store afterwards.
C7_FailedCreateLeavesNoToken ==
    (ret.op = "CreateSession" /\ ret.err # NoErr) =>
        /\ ret.session = NoSession
        /\ ret.ran => Stored(sessions, ret.token) = NoSession

C9_OneUnauthenticatedResponse ==
    (ret.op \in ProtectedOps /\ ret.mw = "failed") =>
        /\ ret.err # NoErr
        /\ ret.resp = Response(401, "Invalid session", "Session is invalid or expired")

\* a request turned away for a reason other than a missing session
C9_Witness ==
    /\ ret.op \in ProtectedOps
    /\ ret.mw = "failed"
    /\ ret.pre # NoSession
    /\ ret.err = Err("session.BusinessError", "invalid token")

\* C10: the handler of a protected route runs only in a request whose bearer
\* token validateSession accepted, and with the subject of that session as
\* its identity (the handler of GET /messages/:id uses no identity); a
\* request with no Authorization header, or one that is not "Bearer <token>",
\* is answered 401 without a call to the session manager and without the
\* handler running.
C10_AuthenticatedBeforeHandler ==
    ret.op \in ProtectedOps =>
        /\ ret.ran =>
              /\ ret.mw = "ok"
              /\ ret.header = Bearer(ret.token)
              /\ ret.err = NoErr
              /\ ret.session # NoSession
              /\ ret.session = ret.pre
              /\ ret.session.token = ret.token
              /\ IF ret.op = "GetMessageByID" THEN ret.userID = NilUUID
                 ELSE ret.userID = ret.session.userID
        /\ (ret.header = MissingHeader \/ ret.header.prefix # "Bearer ") =>
              /\ ret.mw = "rejected"
              /\ ~ ret.ran
              /\ ret.resp.status = 401

\* an owner deleting a message through the protected route
C10_Witness ==
    /\ ret.op = "DeleteMessage"
    /\ ret.ran
    /\ ret.userID = ret.session.userID
    /\ ret.userID \in UserIDs
    /\ ret.resp.status = 200

\* The failure of a registration whose email is taken
AlreadyExists == Err("user.BusinessError", "user with this email already exists")

\* C11: register with an email for which an account exists, the lookup of
\* the pre-check working, fails with the already-exists error and returns no
\* identity; the users table is left as it was, and the hasher is not
\* consulted: a hasher that would fail makes no difference to the outcome.
C11_DuplicateEmailRejected ==
    [][(ret'.op = "UserRegister" /\ ret'.fault # "get"
          /\ \E u \in users : u.email = ret'.email) =>
            /\ ret'.err = AlreadyExists
            /\ ret'.user = NoUser
            /\ users' = users
            /\ nextUserID' = nextUserID]_vars

\* a registration with a taken email, made while the hasher is out of order
C11_Witness ==
    /\ ret.op = "UserRegister"
    /\ ret.fault = "hash"
    /\ ret.err = AlreadyExists
    /\ \E u \in users : u.email = ret.email /\ u.password.kind = "bcrypt"

\* C12: among registrations running at the same time no two accounts ever
\* share an email, and the call that fails because the email was taken in
\* the meantime fails with the already-exists error of a sequential
\* duplicate registration.
C12_RaceLoserAlreadyExists ==
    /\ \A u, v \in users : u.email = v.email => u = v
    /\ (ret.op = "UserRegister" /\ ret.err # NoErr
          /\ \E u \in users : u.email = ret.email /\ u.username # ret.username) =>
          ret.err = AlreadyExists

\* C13: register fails with a validation error and stores nothing whenever
\* the username is empty or shorter than 3 characters, the email is empty or
\* the secret the client supplied is shorter than 6 characters; it stores an
\* account only when all three constraints hold.  (Calls with the hasher
\* and the store working, for an email that is not taken.)
C13_FieldConstraints ==
    [][(ret'.op = "UserRegister" /\ ret'.fault = "none"
          /\ ~ \E u \in users : u.email = ret'.email) =>
         LET bad == \/ ret'.username = "" \/ Len(ret'.username) < 3
                    \/ ret'.email = ""
                    \/ Len(ret'.secret) < 6
         IN  /\ bad => /\ ret'.err.type \in {"entity.ValidationError", "postgres.ValidationError"}
                       /\ users' = users
             /\ users' # users => ~ bad]_vars

\* C14: the identity a successful register, login or getProfile returns has
\* an empty password field and is otherwise the stored account, while the
\* stored account keeps its password: login and getProfile leave the users
\* table as it was, and register stores the hash it made.
C14_NoHashEchoed ==
    [][(ret'.op \in {"UserRegister", "UserLogin", "UserGetProfile"} /\ ret'.err = NoErr) =>
         /\ ret'.user # NoUser
         /\ ret'.user.password = Cleared
         /\ \E row \in users' :
               /\ [row EXCEPT !.password = Cleared] = ret'.user
               /\ row.password # Cleared
               /\ IF ret'.op = "UserRegister"
                  THEN /\ users' = users \cup {row}
                       /\ row \notin users
                       /\ row.password.kind = "bcrypt"
                  ELSE /\ users' = users
                       /\ ret'.op = "UserLogin" => CheckPasswordHash(ret'.secret, row.password)]_vars

\* a login that succeeded against a stored hash and returned the identity
C14_Witness ==
    /\ ret.op = "UserLogin"
    /\ ret.err = NoErr
    /\ ret.user.id \in AccountIDs
    /\ \E row \in users : row.id = ret.user.id /\ row.password.kind = "bcrypt"

\* The failure of a login
InvalidCredentials == Err("user.BusinessError", "invalid credentials")

\* C15: a login for an email that has no account and a login with a secret
\* that does not verify against the account's hash fail with one and the
\* same error, and the login entry point answers both with one and the same
\* response, in which nothing depends on which of the two it was.
C15_LoginFailuresAlike ==
    (ret.op = "Login" /\ ret.fault = "none"
       /\ \/ ~ \E u \in users : u.email = ret.email
          \/ \E u \in users : u.email = ret.email /\ ~ CheckPasswordHash(ret.secret, u.password)) =>
        /\ ret.err = InvalidCredentials
        /\ ret.resp = Response(400, "Validation failed", "invalid credentials")
        /\ ret.session = NoSession
        /\ ret.userID = NilUUID

\* a login with the wrong secret for an account that exists
C15_Witness ==
    /\ ret.op = "Login"
    /\ ret.fault = "none"
    /\ \E u \in users : u.email = ret.email /\ ~ CheckPasswordHash(ret.secret, u.password)
    /\ ret.err = InvalidCredentials

\* C16: a login is reported outward in the Unauthenticated category when it
\* fails on the credentials; a login with the email and secret of a
\* registered account succeeds and returns the identity of that account; and
\* a login never creates or changes an account.
C16_LoginAfterRegister ==
    [][ret'.op = "UserLogin" =>
         /\ users' = users
         /\ (ret'.fault = "none" /\ \E u \in users : u.email = ret'.email
                                      /\ CheckPasswordHash(ret'.secret, u.password)) =>
               /\ ret'.err = NoErr
               /\ \E u \in users : u.email = ret'.email /\ ret'.user = [u EXCEPT !.password = Cleared]
         /\ (ret'.fault = "none" /\ \E u \in users : u.email = ret'.email
                                      /\ ~ CheckPasswordHash(ret'.secret, u.password)) =>
               ret'.err = InvalidCredentials
         /\ ret'.err = InvalidCredentials => ret'.resp.status = 401]_vars

\* C17: deleteUser(U) is all or nothing.  When it succeeds the account U
\* was there and is gone with every session and every message of U and
\* nothing else, so that validateSession fails for every token issued to U;
\* when it fails, whichever statement failed, the accounts, the sessions and
\* the messages are all as they were.  The call changes the tables in one
\* step, so no other call sees part of it.
C17_DeleteUserAllOrNothing ==
    [][ret'.op = "UserDelete" =>
         IF ret'.err = NoErr
         THEN /\ \E u \in users : u.id = ret'.userID
              /\ users' = {u \in users : u.id # ret'.userID}
              /\ sessions' = {x \in sessions : x.userID # ret'.userID}
              /\ messages' = {m \in messages : m.userID # ret'.userID}
              /\ \A t \in issued : t.sub = ret'.userID =>
                    /\ Stored(sessions', t) = NoSession
                    /\ ValidateSession(sessions', t, <<now, now, now>>, FALSE, FALSE).err # NoErr
         ELSE /\ users' = users
              /\ sessions' = sessions
              /\ messages' = messages]_vars

\* an account that had a session and a message has been deleted, and another
\* account is still there
C17_Witness ==
    /\ ret.op = "UserDelete"
    /\ ret.err = NoErr
    /\ \E t \in issued : t.sub = ret.userID
    /\ nextMessageID > 1
    /\ messages = {}
    /\ \E u \in users : u.id # ret.userID

\* C18: the password field of every stored account is an output of the
\* credential hasher, whatever register, login, updateProfile and deleteUser
\* calls were made.
C18_OnlyHashesStored ==
    \A u \in users : u.password.kind = "bcrypt"

\* C19 as stated: verify returns the subject of a token exactly when the
\* token was issued by the service, is unaltered, and the time is not before
\* its notBefore and not after its expiry.
C19_ValidThroughExpiry ==
    ret.op = "ValidateToken" =>
        (ret.err = NoErr <=>
            /\ ret.token \in issued
            /\ ret.token.nbf <= now
            /\ now <= ret.token.exp)

\* C19: verify returns no error, and the subject the token was issued for,
\* exactly when the token was issued by the service under its secret, is
\* unaltered, and the time is not before its notBefore and is before its
\* expiry: from the expiry instant itself on the token is rejected.  A token
\* signed with another secret, an altered or malformed one and an expired
\* one give an error and the nil identity.
C19_VerifyIffIssuedAndInWindow ==
    ret.op = "ValidateToken" =>
        /\ ret.err = NoErr <=>
              /\ ret.token \in issued
              /\ ret.token.nbf <= now
              /\ now < ret.token.exp
        /\ ret.err = NoErr => ret.userID = ret.token.sub
        /\ ret.err # NoErr => ret.userID = NilUUID
        /\ \A t \in issued : now >= t.nbf

\* an issued token presented at the very instant of its expiry, and rejected
C19_Witness ==
    /\ ret.op = "ValidateToken"
    /\ ret.token \in issued
    /\ ret.token.sub \in UserIDs
    /\ now = ret.token.exp
    /\ ret.err # NoErr

C21_OnlyTheOwnerDeletes ==
    [][/\ \A m \in messages :
            (/\ ret'.op = "DeleteMessage"
             /\ ret'.ran
             /\ ret'.fault = "none"
             /\ ret'.messageID = m.id
             /\ ret'.userID # m.userID)
            => (ret'.resp.status = 403 /\ ret'.resp.message = "Forbidden" /\ messages' = messages)
       /\ \A m \in messages \ messages' :
            \/ /\ ret'.op = "DeleteMessage" /\ ret'.ran
               /\ ret'.messageID = m.id /\ ret'.userID = m.userID /\ ret'.resp.status = 200
            \/ /\ ret'.op = "UserDelete" /\ ret'.userID = m.userID
               /\ ~ \E u \in users' : u.id = m.userID]_vars

\* a caller with a session of their own was refused the deletion of another
\* account's message, which is still stored
C21_Witness ==
    /\ ret.op = "DeleteMessage" /\ ret.ran /\ ret.resp.status = 403
    /\ ret.session # NoSession /\ ret.session.userID = ret.userID
    /\ \E m \in messages : m.id = ret.messageID /\ m.userID # ret.userID

\* C22: every failure reaches the client in the category of its cause: a get
\* or delete request for a message that is not stored is answered 404 Not
\* Found, and 500 Internal server error is answered only when the storage
\* itself broke down.
C22_FailuresInTheirCategory ==
    /\ (/\ ret.op \in {"GetMessageByID", "DeleteMessage"}
        /\ ret.ran
        /\ ret.fault = "none"
        /\ ret.resp.status \notin {200, 403}
        /\ ~ \E m \in messages : m.id = ret.messageID)
       => ret.resp.status = 404
    /\ (/\ ret.op \in {"GetMessageByID", "DeleteMessage", "CreateMessage"}
        /\ ret.resp.status = 500)
       => ret.fault # "none"

\* C23: createMessage(userID, content) succeeds only if the user exists and
\* the content is non-empty and at most 1000 characters long, and then the
\* store gains exactly one message, owned by userID, with that content, an id
\* no stored message had, and timestamps read during the call; a failed user
\* lookup returns "user not found"; otherwise an empty or too long content
\* returns the entity's validation error; every failure leaves the message
\* store as it was.
C23_CreateMessage ==
    [][ret'.op = "CreateMessageCall" =>
        LET found == ret'.fault # "get" /\ \E u \in users : u.id = ret'.userID
            valid == ret'.content # "" /\ Len(ret'.content) <= 1000
        IN  /\ ret'.err = NoErr =>
                /\ found
                /\ valid
                /\ ~ \E m \in messages : m.id = ret'.messageID
                /\ \E m \in messages' :
                     /\ messages' = messages \cup {m}
                     /\ m.id = ret'.messageID
                     /\ m.userID = ret'.userID
                     /\ m.content = ret'.content
                     /\ ret'.t0 <= m.createdAt
                     /\ m.createdAt <= m.updatedAt
                     /\ m.updatedAt <= now'
            /\ ret'.err # NoErr => messages' = messages
            /\ ~ found => ret'.err = Err("message.BusinessError", "user not found")
            /\ (found /\ ~ valid) => ret'.err.type = "entity.ValidationError"
            /\ (found /\ valid /\ ret'.fault = "none") => ret'.err = NoErr]_vars

\* a content of exactly 1000 characters was stored for an existing account
C23_Witness ==
    /\ ret.op = "CreateMessageCall"
    /\ ret.err = NoErr
    /\ Len(ret.content) = 1000
    /\ \E m \in messages : m.id = ret.messageID /\ m.userID = ret.userID /\ m.content = ret.content

\* C24: a failed validateSession returns exactly one of "invalid session",
\* "session expired", "invalid token" and "token mismatch", decided in that
\* order: a lookup that finds no session or breaks down is "invalid session";
\* a stored session that had expired when the call began is "session expired"
\* and is gone afterwards, whatever its token; the token is verified only for
\* a stored session that has not expired.
C24_ClassifiedInOrder ==
    (ret.op = "ValidateSession" /\ ret.err # NoErr) =>
        /\ ret.err.type = "session.BusinessError"
        /\ ret.err.msg \in {"invalid session", "session expired", "invalid token", "token mismatch"}
        /\ (ret.pre = NoSession \/ ret.fault = "get") => ret.err.msg = "invalid session"
        /\ (ret.pre # NoSession /\ ret.fault # "get" /\ ret.pre.expiresAt < ret.t0) =>
               /\ ret.err.msg = "session expired"
               /\ ret.fault = "none" => Stored(sessions, ret.token) = NoSession
        /\ ret.err.msg \in {"invalid token", "token mismatch"} =>
               (ret.pre # NoSession /\ ret.pre.expiresAt >= ret.t0)

\* C25: validateSession leaves the users table unchanged, and the sessions
\* table too unless it returns "session expired"; when it does, and the
\* deletion itself did not break down, exactly the session stored under the
\* presented token is removed.  No other operation removes a session it
\* was not asked to delete: a session leaves the table only through that
\* eviction, a deleteSession with its token, or the deletion of its account.
C25_OnlyExpiryEvicts ==
    [][/\ ret'.op = "ValidateSession" =>
            /\ users' = users
            /\ messages' = messages
            /\ ret'.err.msg # "session expired" => sessions' = sessions
            /\ (ret'.err.msg = "session expired" /\ ret'.fault = "none") =>
                   /\ ret'.pre \in sessions
                   /\ ret'.pre.token = ret'.token
                   /\ sessions' = sessions \ {ret'.pre}
            /\ (ret'.err.msg = "session expired" /\ ret'.fault = "del") => sessions' = sessions
       /\ \A s \in sessions \ sessions' :
            \/ ret'.op = "ValidateSession" /\ ret'.err.msg = "session expired" /\ s.token = ret'.token
            \/ ret'.op = "DeleteSession" /\ s.token = ret'.token
            \/ ret'.op = "DeleteUser" /\ s.userID = ret'.userID]_vars

\* a validation was classified as expired and evicted the session, while
\* another session stayed
C25_Witness ==
    /\ ret.op = "ValidateSession"
    /\ ret.err.msg = "session expired"
    /\ ret.fault = "none"
    /\ ret.pre # NoSession
    /\ Stored(sessions, ret.token) = NoSession
    /\ sessions # {}

\* C26: when a store call of register, login or deleteUser returns an error
\* other than not-found, the operation returns a failure and writes nothing
\* to the store afterwards.
C26_StoreErrorStopsTheCall ==
    [][(ret'.op \in {"UserRegister", "UserLogin", "UserDelete"} /\ ret'.fault \in {"get", "db"}) =>
           /\ ret'.err # NoErr
           /\ users' = users
           /\ sessions' = sessions
           /\ messages' = messages]_vars

\* C27: no two stored sessions hold the same token, and a createSession for
\* an existing account that meets no signing or storage fault succeeds with a
\* token that no stored session already holds, also when the account got
\* another session within the same second.
C27_TokensDistinct ==
    /\ \A s1, s2 \in sessions : s1.token = s2.token => s1 = s2
    /\ (ret.op = "CreateSession" /\ ret.fault = "none" /\ \E u \in users : u.id = ret.userID) =>
           (ret.err = NoErr /\ ret.pre = NoSession)

\* C28: the expiry embedded in a token and the expiresAt of its session
\* agree: a validateSession for a stored session whose expiresAt has not
\* passed when the call returns does not fail with "invalid token".
C28_TokenLivesAsLongAsSession ==
    (ret.op = "ValidateSession" /\ ret.fault = "none" /\ ret.pre # NoSession /\ ret.pre.expiresAt >= now) =>
        ret.err.msg # "invalid token"

\* C29: however deleteUser(U) interleaves with login and createSession for U
\* and createMessage by U, every committed session and every committed
\* message refers to an account that exists: an insert that commits before
\* the deletion does is removed with the account, and one that comes after
\* it fails.
C29_NoOrphans ==
    /\ \A x \in sessions : \E u \in users : u.id = x.userID
    /\ \A m \in messages : \E u \in users : u.id = m.userID
    /\ (ret.op \in {"Login", "CreateSession", "CreateMessageCall"} /\ ret.ran
          /\ ~ \E u \in users : u.id = ret.userID)
       => ret.err # NoErr

\* an account was deleted although an insert for it had committed while the
\* transaction was open, and a call that had looked the account up before is
\* still on its way to its insert
C29_Witness ==
    /\ ret.op = "DeleteUser"
    /\ ret.err = NoErr
    /\ ret.ok
    /\ ~ \E u \in users : u.id = ret.userID
    /\ \E p \in pending : p.userID = ret.userID

\* C30: a registration request ends in one of two outcomes: the response
\* carries the new identity and a stored session of that identity, or it
\* carries no session and reports a failure (an error body under an error
\* status), also when the account was persisted and the creation of the
\* session failed.
C30_PairOrFailure ==
    ret.op = "Register" =>
        \/ /\ ret.resp.status = 201
           /\ ret.userID # NilUUID
           /\ ret.session \in sessions
           /\ ret.session.userID = ret.userID
           /\ \E u \in users : u.id = ret.userID /\ u.email = ret.email
        \/ /\ ret.resp.status >= 400
           /\ ret.resp.error # ""
           /\ ret.session = NoSession

====
